---- MODULE Spec2Model ----
(***************************************************************************)
(* Model of the crolin-kit thread pool (src/core/thread/src/thread.c):     *)
(* the priority task queue, the worker loop, submit, resize, set_limits    *)
(* and destroy.  Every critical section on pool->lock is one atomic        *)
(* action, so the pool mutex is free in every state of the model; the      *)
(* code that runs without the lock (the task function, the range check of  *)
(* resize, the joins of destroy) is a step of its own.                     *)
(***************************************************************************)
EXTENDS Integers, Sequences, FiniteSets, TLC

\* ---- bounds of the model ------------------------------------------------
MaxTasks == 2     \* Spec: tasks that are queued or running at the same time
MaxQueue == 4     \* SpecQueue: tasks that are queued or running at the same time
MaxInit  == 1     \* largest num_threads given to thread_pool_create
MaxLimit == 2     \* largest max_threads given to thread_pool_set_limits
MaxSpawn == 3     \* cap on pool->started (worker threads ever spawned)
MaxCreate == 2    \* SpecDestroy, SpecApi: largest num_threads given to thread_pool_create
MaxWatermark == 1 \* SpecApi: largest watermark given to thread_pool_enable_auto_adjust

\* ---- program constants --------------------------------------------------
TASK_PRIORITY_HIGH       == 0
TASK_PRIORITY_NORMAL     == 5
TASK_PRIORITY_LOW        == 10
TASK_PRIORITY_BACKGROUND == 15
Priorities == {TASK_PRIORITY_HIGH, TASK_PRIORITY_NORMAL,
               TASK_PRIORITY_LOW, TASK_PRIORITY_BACKGROUND}

\* thread_status values
ST_IDLE   == 0
ST_BUSY   == 1
ST_EXITED == -1
ST_RESIZE == -2

\* running_task_names holds a task's name (here: its id, 1..MaxTasks) or "[idle]"
IDLE_NAME == 0

\* the entries thread_pool_get_running_task_names makes up for a worker that
\* leaves: "[exiting_resize]" and "[exiting_shutdown]"
EXITING_RESIZE_NAME == -2
EXITING_SHUTDOWN_NAME == -1

\* size of task_name, terminator included
MAX_TASK_NAME_LEN == 64

\* pool->adjust_interval of a new pool, in milliseconds
DEFAULT_ADJUST_INTERVAL == 5000

WorkerIds == 1..MaxSpawn          \* identities of the OS threads, in spawn order
Max(a, b) == IF a > b THEN a ELSE b
MaxIndex  == Max(2 * MaxInit, MaxLimit)   \* worker indices are 0..MaxIndex-1

VARIABLES
    queue,               \* the linked list head..tail: sequence of [id, priority]
    tail,                \* pool->tail: id of the tail node, 0 for NULL
    task_queue_size,     \* pool->task_queue_size
    thread_count,        \* pool->thread_count
    min_threads,         \* pool->min_threads
    max_threads,         \* pool->max_threads
    idle_threads,        \* pool->idle_threads
    started,             \* pool->started
    shutdown,            \* pool->shutdown
    resize_shutdown,     \* pool->resize_shutdown
    threads,             \* pool->threads[i]: handle (WorkerIds) of the thread at index i
    thread_status,       \* pool->thread_status[i]
    running_task_names,  \* pool->running_task_names[i]
    workers,             \* per OS thread: pc, thread_id (index), the task_t it runs
    resize_lock,         \* holder of pool->resize_lock: "free", "api" or "lim"
    resize_pc,           \* where that resize stands: "-", "min", "max" or "body"
    resize_target,       \* new_thread_count of the resize holding resize_lock
    limits_target,       \* target of the resize set_limits still has to call, 0 if none
    destroy_pc,          \* position of thread_pool_destroy: "no", "join", "done"
    destroy_i,           \* index of the join loop of thread_pool_destroy
    ret,                 \* the API call that returned in the last step
    limits_args,         \* <<min_threads, max_threads>> arguments of the
                         \* thread_pool_set_limits call in progress, else <<0, 0>>
    adjust_target,       \* resize_target of auto_adjust_thread_function: the
                         \* target of the resize it still has to make, 0 if none
    auto_adjust,         \* pool->auto_adjust
    high_watermark,      \* pool->high_watermark
    low_watermark,       \* pool->low_watermark
    adjust_interval,     \* pool->adjust_interval
    adjust_thread_running, \* pool->adjust_thread_running
    lock,                \* holder of pool->lock, "free" if none
    adjust_cond_lock,    \* holder of pool->adjust_cond_lock, "free" if none
    adjust_cond_lock_init, \* pool->adjust_cond_lock is an initialised mutex
    adjust_thread,       \* pool->adjust_thread != 0
    pc,                  \* position of each thread in the code, by source line
    fn                   \* the API function each client thread has called

vars == <<queue, tail, task_queue_size, thread_count, min_threads, max_threads,
          idle_threads, started, shutdown, resize_shutdown, threads,
          thread_status, running_task_names, workers, resize_lock, resize_pc,
          resize_target, limits_target, destroy_pc, destroy_i, ret,
          limits_args, adjust_target, auto_adjust, high_watermark, low_watermark,
          adjust_interval, adjust_thread_running, lock, adjust_cond_lock,
          adjust_cond_lock_init, adjust_thread, pc, fn>>

queueVars  == <<queue, tail, task_queue_size>>
limitVars  == <<min_threads, max_threads>>
threadVars == <<thread_count, idle_threads, started, resize_shutdown, threads,
                thread_status, running_task_names, workers>>
resizeVars == <<resize_lock, resize_pc, resize_target>>
destroyVars == <<destroy_pc, destroy_i>>
adjustVars == <<auto_adjust, high_watermark, low_watermark, adjust_interval,
                adjust_thread_running>>
lockVars   == <<lock, adjust_cond_lock, adjust_cond_lock_init, adjust_thread,
                pc, fn>>

\* a returned call: its name, its return value and, for a call that returned
\* 0, two numbers about it:
\*   add_task   arg = the task enqueued
\*   resize     arg = new_thread_count, arg2 = thread_count found by the call
\*   set_limits arg = min_threads argument, arg2 = max_threads argument
\*   create     arg = num_threads
RetArgs(op, val, a, b) == [op |-> op, val |-> val, arg |-> a, arg2 |-> b]
Ret(op, val) == RetArgs(op, val, 0, 0)
RetAdd(t) == RetArgs("add_task", 0, t, 0)
NoRet == Ret("-", 0)          \* the last step returned from no API call

\* ---- helpers --------------------------------------------------------------
NoTask == [id |-> 0, priority |-> 0]       \* task == NULL
Unborn == [pc |-> "unborn", thread_id |-> 0, task |-> NoTask]
QueuedIds  == {queue[k].id : k \in 1..Len(queue)}
RunningIds == {workers[w].task.id : w \in {v \in WorkerIds : workers[v].pc = "busy"}}
Alive(w)   == workers[w].pc \in {"loop", "busy"}
Cap        == Cardinality(DOMAIN threads)     \* allocated length of the three arrays

\* ---- task queue (thread.c:34-179) ----------------------------------------
\* faulty variants of EnqueuePos: a plain FIFO that ignores the priority, and
\* an insertion ahead of the queued tasks of the same priority
EnqueuePosAppend(q, task) == Len(q) + 1

EnqueuePosLifo(q, task) ==
    LET later == {k \in 1..Len(q) : q[k].priority >= task.priority}
    IN  IF later = {} THEN Len(q) + 1
        ELSE CHOOSE k \in later : \A j \in later : k <= j

\* index before which task_enqueue_internal links the new node: the head if the
\* new task beats the head, else the first node whose priority is greater
EnqueuePos(q, task) ==
    IF q = <<>> THEN 1
    ELSE IF task.priority < q[1].priority THEN 1
    ELSE LET later == {k \in 1..Len(q) : q[k].priority > task.priority}
         IN  IF later = {} THEN Len(q) + 1
             ELSE CHOOSE k \in later : \A j \in later : k <= j

InsertAt(q, pos, task) ==
    SubSeq(q, 1, pos - 1) \o <<task>> \o SubSeq(q, pos, Len(q))

task_enqueue_internal(q, task) == InsertAt(q, EnqueuePos(q, task), task)

\* faulty variant of EnqueueTail: a node linked behind the old tail does not
\* become the tail
EnqueueTailStale(q, tl, task) == IF q = <<>> THEN task.id ELSE tl

\* pool->tail after task_enqueue_internal: set on an empty queue and when the
\* node was linked behind the old tail
EnqueueTail(q, tl, task) ==
    IF q = <<>> THEN task.id
    ELSE IF EnqueuePos(q, task) = 1 THEN tl
    ELSE IF q[EnqueuePos(q, task) - 1].id = tl THEN task.id
    ELSE tl

\* faulty variant of task_dequeue_internal: the head node stays linked
DequeueKeep(q) == q

task_dequeue_internal(q) == Tail(q)
DequeueTail(q, tl) == IF Len(q) = 1 THEN 0 ELSE tl

\* ---- threads of the lock-level specification ------------------------------
\* two client threads that call the API, one worker, the auto-adjust thread
LockClients == {"u1", "u2"}
LockThreads == LockClients \cup {"w1", "ctl"}

\* ---- Init: the pool returned by thread_pool_create(n) ---------------------
\* faulty variant of InitPool: max_threads is one more than num_threads
InitPoolMaxPlusOne(n) ==
        /\ queue = <<>>
        /\ tail = 0
        /\ task_queue_size = 0
        /\ thread_count = n
        /\ min_threads = 1
        /\ max_threads = n + 1
        /\ idle_threads = 0
        /\ started = n
        /\ shutdown = FALSE
        /\ resize_shutdown = FALSE
        /\ threads = [i \in 0..(n - 1) |-> i + 1]
        /\ thread_status = [i \in 0..(n - 1) |-> ST_BUSY]
        /\ running_task_names = [i \in 0..(n - 1) |-> IDLE_NAME]
        /\ workers = [w \in WorkerIds |->
                        IF w <= n THEN [pc |-> "loop", thread_id |-> w - 1, task |-> NoTask]
                        ELSE Unborn]
        /\ resize_lock = "free"
        /\ resize_pc = "-"
        /\ resize_target = 0
        /\ limits_target = 0
        /\ destroy_pc = "no"
        /\ destroy_i = 0
        /\ ret = RetArgs("create", 0, n, 0)
        /\ limits_args = <<0, 0>>
        /\ adjust_target = 0
        /\ auto_adjust = FALSE
        /\ high_watermark = n
        /\ low_watermark = n \div 2
        /\ adjust_interval = DEFAULT_ADJUST_INTERVAL
        /\ adjust_thread_running = FALSE
        /\ lock = "free"
        /\ adjust_cond_lock = "free"
        /\ adjust_cond_lock_init = FALSE
        /\ adjust_thread = FALSE
        /\ pc = [t \in LockThreads |->
                    IF t \in LockClients THEN "idle"
                    ELSE IF t = "ctl" THEN "unborn" ELSE "w_210"]
        /\ fn = [t \in LockClients |-> "-"]

InitPool(n) ==
        /\ queue = <<>>
        /\ tail = 0
        /\ task_queue_size = 0
        /\ thread_count = n
        /\ min_threads = 1
        /\ max_threads = 2 * n
        /\ idle_threads = 0
        /\ started = n
        /\ shutdown = FALSE
        /\ resize_shutdown = FALSE
        /\ threads = [i \in 0..(n - 1) |-> i + 1]
        /\ thread_status = [i \in 0..(n - 1) |-> ST_BUSY]
        /\ running_task_names = [i \in 0..(n - 1) |-> IDLE_NAME]
        /\ workers = [w \in WorkerIds |->
                        IF w <= n THEN [pc |-> "loop", thread_id |-> w - 1, task |-> NoTask]
                        ELSE Unborn]
        /\ resize_lock = "free"
        /\ resize_pc = "-"
        /\ resize_target = 0
        /\ limits_target = 0
        /\ destroy_pc = "no"
        /\ destroy_i = 0
        /\ ret = RetArgs("create", 0, n, 0)
        /\ limits_args = <<0, 0>>
        /\ adjust_target = 0
        /\ auto_adjust = FALSE
        /\ high_watermark = n
        /\ low_watermark = n \div 2
        /\ adjust_interval = DEFAULT_ADJUST_INTERVAL
        /\ adjust_thread_running = FALSE
        /\ lock = "free"
        /\ adjust_cond_lock = "free"
        /\ adjust_cond_lock_init = FALSE
        /\ adjust_thread = FALSE
        /\ pc = [t \in LockThreads |->
                    IF t \in LockClients THEN "idle"
                    ELSE IF t = "ctl" THEN "unborn" ELSE "w_210"]
        /\ fn = [t \in LockClients |-> "-"]

Init == \E n \in 1..MaxInit : InitPool(n)

\* thread_pool_create(n) with n <= 0 returns NULL before it allocates anything
\* (thread.c:571-574): there is no pool and no thread; the variables hold the
\* values of a pool without threads and are never used
NoPool ==
    /\ queue = <<>>
    /\ tail = 0
    /\ task_queue_size = 0
    /\ thread_count = 0
    /\ min_threads = 0
    /\ max_threads = 0
    /\ idle_threads = 0
    /\ started = 0
    /\ shutdown = FALSE
    /\ resize_shutdown = FALSE
    /\ threads = <<>>
    /\ thread_status = <<>>
    /\ running_task_names = <<>>
    /\ workers = [w \in WorkerIds |-> Unborn]
    /\ resize_lock = "free"
    /\ resize_pc = "-"
    /\ resize_target = 0
    /\ limits_target = 0
    /\ destroy_pc = "no"
    /\ destroy_i = 0
    /\ ret = Ret("create", -1)
    /\ limits_args = <<0, 0>>
    /\ adjust_target = 0
    /\ auto_adjust = FALSE
    /\ high_watermark = 0
    /\ low_watermark = 0
    /\ adjust_interval = 0
    /\ adjust_thread_running = FALSE
    /\ lock = "free"
    /\ adjust_cond_lock = "free"
    /\ adjust_cond_lock_init = FALSE
    /\ adjust_thread = FALSE
    /\ pc = [t \in LockThreads |-> "unborn"]
    /\ fn = [t \in LockClients |-> "-"]

\* the handle the caller got from thread_pool_create is NULL
PoolIsNull == started = 0

\* ---- thread_pool_add_task (thread.c:761-811) ------------------------------
\* ids: the identities a new task can take; one that is neither queued nor
\* running stands for a fresh task
FreeIds(ids) == ids \ (QueuedIds \cup RunningIds)

\* faulty variant of thread_pool_add_task: pool->shutdown is not tested
AddTaskUnchecked(p, ids) ==
    /\ destroy_pc # "done"
    /\ FreeIds(ids) # {}
    /\ LET t == CHOOSE x \in FreeIds(ids) : \A y \in FreeIds(ids) : x <= y
           task == [id |-> t, priority |-> p]
       IN  /\ queue' = task_enqueue_internal(queue, task)
           /\ tail' = EnqueueTail(queue, tail, task)
           /\ task_queue_size' = task_queue_size + 1
           /\ ret' = RetAdd(t)
    /\ UNCHANGED <<limitVars, threadVars, shutdown, resizeVars, limits_target,
                   destroyVars>>
    /\ UNCHANGED <<limits_args, adjust_target, adjustVars, lockVars>>

thread_pool_add_task(p, ids) ==
    /\ destroy_pc # "done"
    /\ IF shutdown
       THEN /\ ret' = Ret("add_task", -1)
            /\ UNCHANGED queueVars
       ELSE /\ FreeIds(ids) # {}
            /\ LET t == CHOOSE x \in FreeIds(ids) : \A y \in FreeIds(ids) : x <= y
                   task == [id |-> t, priority |-> p]
               IN  /\ queue' = task_enqueue_internal(queue, task)
                   /\ tail' = EnqueueTail(queue, tail, task)
                   /\ task_queue_size' = task_queue_size + 1
                   /\ ret' = RetAdd(t)
    /\ UNCHANGED <<limitVars, threadVars, shutdown, resizeVars, limits_target,
                   destroyVars>>
    /\ UNCHANGED <<limits_args, adjust_target, adjustVars, lockVars>>

\* ---- task names (thread.c:780-790) ----------------------------------------
\* a name is a sequence of characters; "unnamed_task" is written as one
UNNAMED_TASK == <<"unnamed_task">>

\* task_name arguments: NULL, or a string of the caller
NullName == [null |-> TRUE, str |-> <<>>]
CallerNames == {<<"a">>, <<"b">>}
NameArgs == {NullName} \cup {[null |-> FALSE, str |-> n] : n \in CallerNames}

\* strncpy(dst, src, MAX_TASK_NAME_LEN - 1) and the terminator at the end
CopyName(str) ==
    IF Len(str) <= MAX_TASK_NAME_LEN - 1 THEN str
    ELSE SubSeq(str, 1, MAX_TASK_NAME_LEN - 1)

\* thread.c:784-790: task.task_name of the task that is enqueued
TaskName(task_name) ==
    IF task_name.null THEN CopyName(UNNAMED_TASK) ELSE CopyName(task_name.str)

\* thread_pool_add_task with the name it stores in the task
thread_pool_add_task_name(p, ids, task_name) ==
    /\ destroy_pc # "done"
    /\ IF shutdown
       THEN /\ ret' = Ret("add_task", -1)
            /\ UNCHANGED queueVars
       ELSE /\ FreeIds(ids) # {}
            /\ LET t == CHOOSE x \in FreeIds(ids) : \A y \in FreeIds(ids) : x <= y
                   task == [id |-> t, priority |-> p, name |-> TaskName(task_name)]
               IN  /\ queue' = task_enqueue_internal(queue, task)
                   /\ tail' = EnqueueTail(queue, tail, task)
                   /\ task_queue_size' = task_queue_size + 1
                   /\ ret' = RetAdd(t)
    /\ UNCHANGED <<limitVars, threadVars, shutdown, resizeVars, limits_target,
                   destroyVars>>
    /\ UNCHANGED <<limits_args, adjust_target, adjustVars, lockVars>>

\* ---- worker_thread_function (thread.c:199-389) ----------------------------
\* faulty variant of ShouldExit: shutdown is not part of the exit test
ShouldExitNoShutdown(id) ==
    \/ id >= thread_count
    \/ id < thread_count /\ thread_status[id] < 0

\* faulty variant of ShouldExit: the worker leaves on an empty queue, whether
\* or not the pool is shut down
ShouldExitEager(id) ==
    \/ shutdown \/ task_queue_size = 0
    \/ id >= thread_count
    \/ id < thread_count /\ thread_status[id] < 0

\* the exit test after the wait loop (thread.c:246-248)
ShouldExit(id) ==
    \/ shutdown /\ task_queue_size = 0
    \/ id >= thread_count
    \/ id < thread_count /\ thread_status[id] < 0

\* thread.c:246-273: leave the loop
WorkerExit(w) ==
    /\ destroy_pc # "done"
    /\ workers[w].pc = "loop"
    /\ LET id == workers[w].thread_id
       IN  /\ ShouldExit(id)
           /\ idle_threads' = IF id < thread_count /\ thread_status[id] = ST_IDLE
                              THEN idle_threads - 1 ELSE idle_threads
           /\ thread_status' = IF id < thread_count
                               THEN [thread_status EXCEPT ![id] = ST_EXITED]
                               ELSE thread_status
    /\ workers' = [workers EXCEPT ![w].pc = "exited"]
    /\ UNCHANGED <<queueVars, limitVars, thread_count, started, shutdown,
                   resize_shutdown, threads, running_task_names, resizeVars,
                   limits_target, destroyVars>>
    /\ ret' = NoRet
    /\ UNCHANGED <<limits_args, adjust_target, adjustVars, lockVars>>

\* thread.c:226-310: the wait is over, the worker does not exit: it takes the
\* head of the queue, marks itself busy and calls the task function
WorkerDispatch(w) ==
    /\ destroy_pc # "done"
    /\ workers[w].pc = "loop"
    /\ LET id == workers[w].thread_id
       IN  /\ ~ShouldExit(id)
           /\ task_queue_size > 0
           /\ queue # <<>>
           /\ queue' = task_dequeue_internal(queue)
           /\ tail' = DequeueTail(queue, tail)
           /\ task_queue_size' = task_queue_size - 1
           /\ idle_threads' = IF thread_status[id] = ST_IDLE
                              THEN idle_threads - 1 ELSE idle_threads
           /\ thread_status' = [thread_status EXCEPT ![id] = ST_BUSY]
           /\ running_task_names' = [running_task_names EXCEPT ![id] = queue[1].id]
           /\ workers' = [workers EXCEPT ![w].pc = "busy", ![w].task = queue[1]]
    /\ UNCHANGED <<limitVars, thread_count, started, shutdown,
                   resize_shutdown, threads, resizeVars, limits_target,
                   destroyVars>>
    /\ ret' = NoRet
    /\ UNCHANGED <<limits_args, adjust_target, adjustVars, lockVars>>

\* thread.c:310-385: the function returns, the worker updates its slot
WorkerFinish(w) ==
    /\ destroy_pc # "done"
    /\ workers[w].pc = "busy"
    /\ LET id == workers[w].thread_id
       IN  IF id >= thread_count
           THEN /\ workers' = [workers EXCEPT ![w].pc = "loop", ![w].task = NoTask]
                /\ UNCHANGED <<idle_threads, thread_status, running_task_names>>
           ELSE IF thread_status[id] # ST_IDLE
           THEN /\ thread_status' = [thread_status EXCEPT ![id] = ST_IDLE]
                /\ running_task_names' = [running_task_names EXCEPT ![id] = IDLE_NAME]
                /\ idle_threads' = idle_threads + 1
                /\ workers' = [workers EXCEPT ![w].pc = "loop", ![w].task = NoTask]
           ELSE IF shutdown
           THEN /\ workers' = [workers EXCEPT ![w].pc = "exited", ![w].task = NoTask]
                /\ UNCHANGED <<idle_threads, thread_status, running_task_names>>
           ELSE /\ workers' = [workers EXCEPT ![w].pc = "loop", ![w].task = NoTask]
                /\ UNCHANGED <<idle_threads, thread_status, running_task_names>>
    /\ UNCHANGED <<queueVars, limitVars, thread_count, started, shutdown,
                   resize_shutdown, threads, resizeVars, limits_target,
                   destroyVars>>
    /\ ret' = NoRet
    /\ UNCHANGED <<limits_args, adjust_target, adjustVars, lockVars>>

\* ---- thread_pool_resize (thread.c:1204-1363) ------------------------------
Targets == 0..(MaxIndex + 1)

\* what a resize leaves behind when it returns r: resize_lock released; the
\* thread_pool_set_limits call that made it returns as well, with -1 if the
\* resize failed (thread.c:1525-1536)
ResizeReturn(c, r) ==
    /\ ret' = IF r # 0 THEN Ret(IF c = "lim" THEN "set_limits" ELSE "resize", r)
              ELSE IF c = "lim"
              THEN RetArgs("set_limits", 0, limits_args[1], limits_args[2])
              ELSE RetArgs("resize", 0, resize_target, thread_count)
    /\ limits_args' = IF c = "lim" THEN <<0, 0>> ELSE limits_args
    /\ adjust_target' = IF c = "ctl" THEN 0 ELSE adjust_target
    /\ resize_lock' = "free"
    /\ resize_pc' = "-"
    /\ resize_target' = 0
    /\ limits_target' = IF c = "lim" THEN 0 ELSE limits_target

\* faulty variant of ResizeEnter: pool->resize_lock is not taken, a call
\* starts while another one is under way
ResizeEnterNoLock(c, t) ==
    /\ destroy_pc # "done"
    /\ resize_lock # c
    /\ IF c = "lim" THEN limits_target # 0 /\ t = limits_target
       ELSE IF c = "ctl" THEN adjust_target # 0 /\ t = adjust_target
       ELSE TRUE
    /\ t - thread_count + started <= MaxSpawn
    /\ resize_lock' = c
    /\ resize_pc' = "min"
    /\ resize_target' = t
    /\ UNCHANGED <<queueVars, limitVars, threadVars, shutdown, limits_target,
                   destroyVars>>
    /\ ret' = NoRet
    /\ UNCHANGED <<limits_args, adjust_target, adjustVars, lockVars>>

\* thread.c:1204-1212: the call takes resize_lock.  Client "api" is a caller
\* of the public function, client "lim" is thread_pool_set_limits calling it
\* with the target it computed, client "ctl" is auto_adjust_thread_function
\* calling it with its target (thread.c:505).
ResizeEnter(c, t) ==
    /\ destroy_pc # "done"
    /\ resize_lock = "free"
    /\ IF c = "lim" THEN limits_target # 0 /\ t = limits_target
       ELSE IF c = "ctl" THEN adjust_target # 0 /\ t = adjust_target
       ELSE TRUE
    /\ t - thread_count + started <= MaxSpawn
    /\ resize_lock' = c
    /\ resize_pc' = "min"
    /\ resize_target' = t
    /\ UNCHANGED <<queueVars, limitVars, threadVars, shutdown, limits_target,
                   destroyVars>>
    /\ ret' = NoRet
    /\ UNCHANGED <<limits_args, adjust_target, adjustVars, lockVars>>

\* thread.c:1215: the first operand of the range test; min_threads is read
\* without pool->lock
ResizeCheckMin(c) ==
    /\ destroy_pc # "done"
    /\ resize_lock = c
    /\ resize_pc = "min"
    /\ IF resize_target < min_threads
       THEN ResizeReturn(c, -1)
       ELSE /\ resize_pc' = "max"
            /\ UNCHANGED <<resize_lock, resize_target, limits_target, limits_args,
                           adjust_target>>
            /\ ret' = NoRet
    /\ UNCHANGED <<queueVars, limitVars, threadVars, shutdown, destroyVars>>
    /\ UNCHANGED <<adjustVars, lockVars>>

\* faulty variant of ResizeCheckMax: a target above max_threads is let through
ResizeCheckMaxOff(c) ==
    /\ destroy_pc # "done"
    /\ resize_lock = c
    /\ resize_pc = "max"
    /\ resize_pc' = "body"
    /\ ret' = NoRet
    /\ UNCHANGED <<queueVars, limitVars, threadVars, shutdown, destroyVars,
                   resize_lock, resize_target, limits_target, limits_args,
                   adjust_target>>
    /\ UNCHANGED <<adjustVars, lockVars>>

\* thread.c:1215-1221: the second operand, max_threads, read without
\* pool->lock as well
ResizeCheckMax(c) ==
    /\ destroy_pc # "done"
    /\ resize_lock = c
    /\ resize_pc = "max"
    /\ IF resize_target > max_threads
       THEN ResizeReturn(c, -1)
       ELSE /\ resize_pc' = "body"
            /\ UNCHANGED <<resize_lock, resize_target, limits_target, limits_args,
                           adjust_target>>
            /\ ret' = NoRet
    /\ UNCHANGED <<queueVars, limitVars, threadVars, shutdown, destroyVars>>
    /\ UNCHANGED <<adjustVars, lockVars>>

\* faulty variant of Grow: the rollback of a failed grow takes the workers it
\* spawned out of started again
GrowUncount(old, new, stop, kind) ==
    LET tid(j) == started + 1 + (j - old)
    IN  /\ threads' = [j \in 0..(new - 1) |->
                         IF j < old THEN threads[j]
                         ELSE IF j < stop THEN tid(j) ELSE 0]
        /\ thread_status' = [j \in 0..(new - 1) |->
                         IF j < old THEN thread_status[j]
                         ELSE IF j < stop /\ kind = "spawn" THEN ST_RESIZE
                         ELSE ST_IDLE]
        /\ running_task_names' = [j \in 0..(new - 1) |->
                         IF j < old THEN running_task_names[j] ELSE IDLE_NAME]
        /\ workers' = [w \in WorkerIds |->
                         IF w > started /\ w <= started + (stop - old)
                         THEN [pc |-> "loop", thread_id |-> old + (w - started - 1),
                               task |-> NoTask]
                         ELSE workers[w]]
        /\ idle_threads' = idle_threads + (stop - old)
        /\ started' = IF kind = "none" THEN started + (stop - old) ELSE started
        /\ thread_count' = IF kind = "none" THEN new
                           ELSE IF kind = "spawn" THEN stop ELSE old
        /\ resize_shutdown' = IF kind = "none" THEN FALSE ELSE resize_shutdown

\* thread.c:1246-1344: grow from old to new.  stop is the index at which the
\* loop ends: new when every pthread_create succeeded, else the index whose
\* pthread_create (kind "spawn") or malloc (kind "alloc") failed.  The slots
\* from stop on are left unset by the code and are never read; they get the
\* values of a fresh slot here.
Grow(old, new, stop, kind) ==
    LET tid(j) == started + 1 + (j - old)
    IN  /\ threads' = [j \in 0..(new - 1) |->
                         IF j < old THEN threads[j]
                         ELSE IF j < stop THEN tid(j) ELSE 0]
        /\ thread_status' = [j \in 0..(new - 1) |->
                         IF j < old THEN thread_status[j]
                         ELSE IF j < stop /\ kind = "spawn" THEN ST_RESIZE
                         ELSE ST_IDLE]
        /\ running_task_names' = [j \in 0..(new - 1) |->
                         IF j < old THEN running_task_names[j] ELSE IDLE_NAME]
        /\ workers' = [w \in WorkerIds |->
                         IF w > started /\ w <= started + (stop - old)
                         THEN [pc |-> "loop", thread_id |-> old + (w - started - 1),
                               task |-> NoTask]
                         ELSE workers[w]]
        /\ idle_threads' = idle_threads + (stop - old)
        /\ started' = started + (stop - old)
        /\ thread_count' = IF kind = "none" THEN new
                           ELSE IF kind = "spawn" THEN stop ELSE old
        /\ resize_shutdown' = IF kind = "none" THEN FALSE ELSE resize_shutdown

\* thread.c:1345-1355: shrink
Shrink(new) ==
    /\ resize_shutdown' = TRUE
    /\ thread_count' = new
    /\ UNCHANGED <<threads, thread_status, running_task_names, workers,
                   idle_threads, started>>

\* faulty variant of ResizeBody: new_thread_count == old_thread_count is not
\* treated apart and takes the shrink branch
ResizeBodyNoSame(c) ==
    /\ destroy_pc # "done"
    /\ resize_lock = c
    /\ resize_pc = "body"
    /\ LET new == resize_target
           old == thread_count
       IN  IF shutdown
           THEN /\ ResizeReturn(c, -1)
                /\ UNCHANGED threadVars
           ELSE IF new > old
           THEN /\ Grow(old, new, new, "none")
                /\ ResizeReturn(c, 0)
           ELSE /\ Shrink(new)
                /\ ResizeReturn(c, 0)
    /\ UNCHANGED <<queueVars, limitVars, shutdown, destroyVars>>
    /\ UNCHANGED <<adjustVars, lockVars>>

\* thread.c:1223-1363: the part of thread_pool_resize under pool->lock, when
\* every malloc and pthread_create of a grow succeeds
ResizeBody(c) ==
    /\ destroy_pc # "done"
    /\ resize_lock = c
    /\ resize_pc = "body"
    /\ LET new == resize_target
           old == thread_count
       IN  IF shutdown
           THEN /\ ResizeReturn(c, -1)
                /\ UNCHANGED threadVars
           ELSE IF new = old
           THEN /\ ResizeReturn(c, 0)
                /\ UNCHANGED threadVars
           ELSE IF new > old
           THEN /\ Grow(old, new, new, "none")
                /\ ResizeReturn(c, 0)
           ELSE /\ Shrink(new)
                /\ ResizeReturn(c, 0)
    /\ UNCHANGED <<queueVars, limitVars, shutdown, destroyVars>>
    /\ UNCHANGED <<adjustVars, lockVars>>

\* the same part when a grow fails: the malloc of the three arrays
\* (thread.c:1252-1270), or the malloc or pthread_create of slot stop
\* (thread.c:1285-1338)
ResizeGrowFail(c) ==
    /\ destroy_pc # "done"
    /\ resize_lock = c
    /\ resize_pc = "body"
    /\ ~shutdown
    /\ resize_target > thread_count
    /\ \/ UNCHANGED threadVars
       \/ \E stop \in thread_count..(resize_target - 1), kind \in {"spawn", "alloc"} :
              Grow(thread_count, resize_target, stop, kind)
    /\ ResizeReturn(c, -1)
    /\ UNCHANGED <<queueVars, limitVars, shutdown, destroyVars>>
    /\ UNCHANGED <<adjustVars, lockVars>>

\* ---- thread_pool_set_limits (thread.c:1479-1537) --------------------------
\* faulty variant of thread_pool_set_limits: the limits are stored and the
\* call returns without looking at thread_count
SetLimitsNoAdjust(mn, mx) ==
    /\ destroy_pc # "done"
    /\ limits_target = 0
    /\ IF mn <= 0 \/ mx < mn \/ shutdown
       THEN /\ ret' = Ret("set_limits", -1)
            /\ UNCHANGED limitVars
       ELSE /\ min_threads' = mn
            /\ max_threads' = mx
            /\ ret' = RetArgs("set_limits", 0, mn, mx)
    /\ UNCHANGED <<queueVars, threadVars, shutdown, resizeVars, destroyVars,
                   limits_target, limits_args>>
    /\ UNCHANGED <<adjust_target, adjustVars, lockVars>>

thread_pool_set_limits(mn, mx) ==
    /\ destroy_pc # "done"
    /\ limits_target = 0
    /\ IF mn <= 0 \/ mx < mn \/ shutdown
       THEN /\ ret' = Ret("set_limits", -1)
            /\ UNCHANGED <<limitVars, limits_target, limits_args>>
       ELSE /\ min_threads' = mn
            /\ max_threads' = mx
            /\ IF thread_count < mn
               THEN /\ limits_target' = mn
                    /\ limits_args' = <<mn, mx>>
                    /\ ret' = NoRet
               ELSE IF thread_count > mx
               THEN /\ limits_target' = mx
                    /\ limits_args' = <<mn, mx>>
                    /\ ret' = NoRet
               ELSE /\ limits_target' = 0
                    /\ limits_args' = <<0, 0>>
                    /\ ret' = RetArgs("set_limits", 0, mn, mx)
    /\ UNCHANGED <<queueVars, threadVars, shutdown, resizeVars, destroyVars>>
    /\ UNCHANGED <<adjust_target, adjustVars, lockVars>>

\* ---- thread_pool_get_stats (thread.c:1539-1573) ---------------------------
\* the snapshot copied under pool->lock; the call fails on a shut down pool
thread_pool_get_stats ==
    [ok |-> ~shutdown,
     thread_count |-> thread_count, min_threads |-> min_threads,
     max_threads |-> max_threads, idle_threads |-> idle_threads,
     task_queue_size |-> task_queue_size, started |-> started]

\* ---- thread_pool_get_running_task_names (thread.c:1377-1449) --------------
\* the copy made under pool->lock, one entry for each index below
\* thread_count; the call fails on a shut down pool
thread_pool_get_running_task_names ==
    [ok |-> ~shutdown,
     names |-> [i \in 0..(thread_count - 1) |->
                  IF thread_status[i] > 0 THEN running_task_names[i]
                  ELSE IF thread_status[i] = ST_RESIZE THEN EXITING_RESIZE_NAME
                  ELSE IF thread_status[i] = ST_EXITED THEN EXITING_SHUTDOWN_NAME
                  ELSE IDLE_NAME]]

\* ---- thread_pool_destroy (thread.c:952-1191) ------------------------------
\* thread.c:1007-1028: recount idle_threads, set shutdown, broadcast.  The
\* section on resize_lock before it (thread.c:995-1005) changes nothing while
\* auto_adjust is off and is over before this one starts.
DestroyBegin ==
    /\ destroy_pc = "no"
    /\ idle_threads' = Cardinality({i \in 0..(thread_count - 1) :
                                        thread_status[i] = ST_IDLE})
    /\ shutdown' = TRUE
    /\ destroy_pc' = "join"
    /\ destroy_i' = 0
    /\ UNCHANGED <<queueVars, limitVars, thread_count, started,
                   resize_shutdown, threads, thread_status,
                   running_task_names, workers, resizeVars, limits_target>>
    /\ ret' = NoRet
    /\ UNCHANGED <<limits_args, adjust_target, adjustVars, lockVars>>

\* thread.c:1090-1162: pthread_join of threads[i], for i below thread_count
DestroyJoin ==
    /\ destroy_pc = "join"
    /\ destroy_i < thread_count
    /\ threads[destroy_i] # 0 => workers[threads[destroy_i]].pc = "exited"
    /\ threads' = [threads EXCEPT ![destroy_i] = 0]
    /\ destroy_i' = destroy_i + 1
    /\ UNCHANGED <<queueVars, limitVars, thread_count, idle_threads, started,
                   shutdown, resize_shutdown, thread_status,
                   running_task_names, workers, resizeVars, limits_target,
                   destroy_pc>>
    /\ ret' = NoRet
    /\ UNCHANGED <<limits_args, adjust_target, adjustVars, lockVars>>

\* thread.c:159-179
task_queue_destroy_internal(q) == <<>>

\* thread.c:1164-1190: drop the queue, free the pool, return 0
DestroyFinish ==
    /\ destroy_pc = "join"
    /\ destroy_i >= thread_count
    /\ queue' = task_queue_destroy_internal(queue)
    /\ tail' = 0
    /\ task_queue_size' = 0
    /\ destroy_pc' = "done"
    /\ ret' = Ret("destroy", 0)
    /\ UNCHANGED <<limitVars, threadVars, shutdown, resizeVars, limits_target,
                   destroy_i>>
    /\ UNCHANGED <<limits_args, adjust_target, adjustVars, lockVars>>

\* a worker that outlives thread_pool_destroy touches the freed pool: the
\* behaviour is undefined, the thread is followed no further
WorkerUseAfterFree(w) ==
    /\ destroy_pc = "done"
    /\ Alive(w)
    /\ workers' = [workers EXCEPT ![w].pc = "uaf"]
    /\ UNCHANGED <<queueVars, limitVars, thread_count, idle_threads, started,
                   shutdown, resize_shutdown, threads, thread_status,
                   running_task_names, resizeVars, limits_target, destroyVars>>
    /\ ret' = NoRet
    /\ UNCHANGED <<limits_args, adjust_target, adjustVars, lockVars>>

\* ---- the locks: who holds which mutex at which line -------------------------
\* Every thread is followed from one pthread_mutex_lock, pthread_mutex_unlock,
\* timed wait, pthread_create, pthread_join or call of a task function to the
\* next; pc[t] names the line thread t will execute next.  The flags that
\* steer the locking (shutdown, auto_adjust, adjust_thread_running) are
\* followed; the tests on the queue, the counters and the arguments are
\* inputs: each outcome can be taken.
flagVars == <<shutdown, auto_adjust, adjust_thread_running,
              adjust_cond_lock_init, adjust_thread>>
mutexVars == <<lock, resize_lock, adjust_cond_lock>>
lockFrame == <<queueVars, limitVars, threadVars, resize_pc, resize_target,
               limits_target, destroyVars, limits_args, adjust_target,
               high_watermark,
               low_watermark, adjust_interval>>

\* thread_pool_destroy has freed the pool (thread.c:1164-1190)
Freed == \E t \in LockClients : pc[t] = "x_1190"

\* thread t goes from line from to line to
Step(t, from, to) ==
    /\ ~Freed
    /\ pc[t] = from
    /\ pc' = [pc EXCEPT ![t] = to]
    /\ UNCHANGED <<lockFrame, fn>>
    /\ ret' = NoRet

\* an API function returns to its caller: the client thread is idle again
Return(t, from) ==
    /\ ~Freed
    /\ pc[t] = from
    /\ pc' = [pc EXCEPT ![t] = "idle"]
    /\ fn' = [fn EXCEPT ![t] = "-"]
    /\ UNCHANGED lockFrame
    /\ ret' = NoRet

\* a client thread calls API function f, whose first line of interest is to
Call(t, f, to) ==
    /\ ~Freed
    /\ pc[t] = "idle"
    /\ pc' = [pc EXCEPT ![t] = to]
    /\ fn' = [fn EXCEPT ![t] = f]
    /\ UNCHANGED <<lockFrame, mutexVars, flagVars>>
    /\ ret' = NoRet

\* pthread_mutex_lock and pthread_mutex_unlock of pool->lock, pool->resize_lock
MutexLock(t) ==
    /\ lock = "free"
    /\ lock' = t
    /\ UNCHANGED <<resize_lock, adjust_cond_lock>>

MutexUnlock(t) ==
    /\ lock = t
    /\ lock' = "free"
    /\ UNCHANGED <<resize_lock, adjust_cond_lock>>

ResizeLock(t) ==
    /\ resize_lock = "free"
    /\ resize_lock' = t
    /\ UNCHANGED <<lock, adjust_cond_lock>>

ResizeUnlock(t) ==
    /\ resize_lock = t
    /\ resize_lock' = "free"
    /\ UNCHANGED <<lock, adjust_cond_lock>>

\* pthread_mutex_lock of pool->adjust_cond_lock.  On a mutex that is not
\* initialised, or was destroyed (thread.c:1654), the behaviour is undefined:
\* the call locks it all the same, or returns an error and the thread goes on
\* without the mutex.
AdjustLock(t) ==
    /\ \/ adjust_cond_lock = "free" /\ adjust_cond_lock' = t
       \/ ~adjust_cond_lock_init /\ UNCHANGED adjust_cond_lock
    /\ UNCHANGED <<lock, resize_lock>>

\* pthread_mutex_unlock of pool->adjust_cond_lock; a thread whose lock failed
\* unlocks a mutex it does not hold, which is taken to change nothing
AdjustUnlock(t) ==
    /\ adjust_cond_lock' = IF adjust_cond_lock = t THEN "free" ELSE adjust_cond_lock
    /\ UNCHANGED <<lock, resize_lock>>

NoMutex == UNCHANGED mutexVars
SameFlags == UNCHANGED flagVars

\* ---- worker_thread_function, locks (thread.c:199-389) ----------------------
\* faulty variant of WorkerUnlockForTask: the task function is called with
\* pool->lock held
WorkerKeepLockForTask(t) ==
    /\ Step(t, "w_226", "w_310") /\ NoMutex /\ SameFlags

\* thread.c:275-305: a task was dequeued, the slot is marked busy, pool->lock
\* is released before the call of the task function (thread.c:310)
WorkerUnlockForTask(t) ==
    /\ Step(t, "w_226", "w_310") /\ MutexUnlock(t) /\ SameFlags

worker_thread_function_locks(t) ==
    \* thread.c:210
    \/ Step(t, "w_210", "w_226") /\ MutexLock(t) /\ SameFlags
    \* thread.c:226-243: pthread_cond_timedwait gives pool->lock up ...
    \/ ~shutdown /\ Step(t, "w_226", "w_230") /\ MutexUnlock(t) /\ SameFlags
    \* ... and takes it again when signalled or after the timeout
    \/ Step(t, "w_230", "w_226") /\ MutexLock(t) /\ SameFlags
    \* thread.c:246-272: the exit test holds
    \/ Step(t, "w_226", "exited") /\ MutexUnlock(t) /\ SameFlags
    \* thread.c:283-286: no task
    \/ Step(t, "w_226", "w_210") /\ MutexUnlock(t) /\ SameFlags
    \/ WorkerUnlockForTask(t)
    \* thread.c:310-320: the task function returns
    \/ Step(t, "w_310", "w_320") /\ NoMutex /\ SameFlags
    \/ Step(t, "w_320", "w_323") /\ MutexLock(t) /\ SameFlags
    \* thread.c:346-354: idle again, above the low watermark
    \/ auto_adjust /\ Step(t, "w_323", "w_357") /\ MutexUnlock(t) /\ SameFlags
    \/ Step(t, "w_357", "w_359") /\ AdjustLock(t) /\ SameFlags
    \/ Step(t, "w_359", "w_365") /\ AdjustUnlock(t) /\ SameFlags
    \/ Step(t, "w_365", "w_385") /\ MutexLock(t) /\ SameFlags
    \* thread.c:369-375: the slot was idle already and the pool shuts down
    \/ shutdown /\ Step(t, "w_323", "exited") /\ MutexUnlock(t) /\ SameFlags
    \* thread.c:323-331 and thread.c:384-385
    \/ \E from \in {"w_323", "w_385"} :
           Step(t, from, "w_210") /\ MutexUnlock(t) /\ SameFlags

\* ---- thread_pool_add_task, locks (thread.c:761-811, 86-97) -----------------
thread_pool_add_task_locks(t) ==
    \/ Call(t, "add_task", "a_770")
    \/ Step(t, "a_770", "a_771") /\ MutexLock(t) /\ SameFlags
    \* thread.c:771-776
    \/ shutdown /\ Return(t, "a_771") /\ MutexUnlock(t) /\ SameFlags
    \* thread.c:793, task_enqueue_internal: above the high watermark
    \* (thread.c:86-92) the auto-adjust thread is signalled, under pool->lock
    \/ ~shutdown /\ auto_adjust /\ Step(t, "a_771", "a_93") /\ NoMutex /\ SameFlags
    \/ Step(t, "a_93", "a_95") /\ AdjustLock(t) /\ SameFlags
    \/ Step(t, "a_95", "a_800") /\ AdjustUnlock(t) /\ SameFlags
    \/ ~shutdown /\ Step(t, "a_771", "a_800") /\ NoMutex /\ SameFlags
    \* thread.c:796-800
    \/ Step(t, "a_800", "a_803") /\ MutexUnlock(t) /\ SameFlags
    \* thread.c:803-807: auto_adjust is read without a lock
    \/ auto_adjust /\ Step(t, "a_803", "a_804") /\ NoMutex /\ SameFlags
    \/ Step(t, "a_804", "a_806") /\ AdjustLock(t) /\ SameFlags
    \/ Return(t, "a_806") /\ AdjustUnlock(t) /\ SameFlags
    \/ ~auto_adjust /\ Return(t, "a_803") /\ NoMutex /\ SameFlags

\* ---- thread_pool_resize, locks (thread.c:1204-1363) ------------------------
\* the function that called thread_pool_resize or
\* thread_pool_disable_auto_adjust in thread t
Caller(t) == IF t \in LockClients THEN fn[t] ELSE "auto_adjust_thread"

\* thread_pool_resize returns: to the auto-adjust thread (thread.c:505-511), or
\* to thread_pool_set_limits, which returns as well (thread.c:1527-1536), or
\* to the client
ResizeReturns(t, from) ==
    IF Caller(t) = "auto_adjust_thread"
    THEN Step(t, from, "c_511")
    ELSE Return(t, from)

\* faulty variant of ResizeGrowToSpawn: pool->shutdown is not tested
ResizeGrowUnchecked(t) ==
    Step(t, "r_1226", "r_1316") /\ NoMutex /\ SameFlags

\* thread.c:1226-1316: the pool is not shut down and is to grow: up to the
\* pthread_create of a worker
ResizeGrowToSpawn(t) ==
    ~shutdown /\ Step(t, "r_1226", "r_1316") /\ NoMutex /\ SameFlags

thread_pool_resize_locks(t) ==
    \/ Call(t, "resize", "r_1212")
    \/ Step(t, "r_1212", "r_1215") /\ ResizeLock(t) /\ SameFlags
    \* thread.c:1215-1221: out of range
    \/ ResizeReturns(t, "r_1215") /\ ResizeUnlock(t) /\ SameFlags
    \/ Step(t, "r_1215", "r_1224") /\ NoMutex /\ SameFlags
    \/ Step(t, "r_1224", "r_1226") /\ MutexLock(t) /\ SameFlags
    \* thread.c:1226-1244, 1252-1270: shut down, or nothing to do, or no memory
    \/ Step(t, "r_1226", "r_1358") /\ MutexUnlock(t) /\ SameFlags
    \/ ResizeGrowToSpawn(t)
    \* thread.c:1316-1344: pthread_create has returned
    \/ Step(t, "r_1316", "r_1357") /\ NoMutex /\ SameFlags
    \* thread.c:1345-1355: shrink
    \/ ~shutdown /\ Step(t, "r_1226", "r_1357") /\ NoMutex /\ SameFlags
    \/ Step(t, "r_1357", "r_1358") /\ MutexUnlock(t) /\ SameFlags
    \/ ResizeReturns(t, "r_1358") /\ ResizeUnlock(t) /\ SameFlags

\* ---- thread_pool_set_limits, locks (thread.c:1479-1537) --------------------
\* faulty variant of SetLimitsUnlock: pool->lock is kept for the resize
SetLimitsKeepLock(t) ==
    /\ ~shutdown /\ Step(t, "l_1493", "l_1525") /\ NoMutex /\ SameFlags

\* thread.c:1499-1523: the limits are stored, pool->lock is released
SetLimitsUnlock(t) ==
    /\ ~shutdown /\ Step(t, "l_1493", "l_1525") /\ MutexUnlock(t) /\ SameFlags

thread_pool_set_limits_locks(t) ==
    \/ Call(t, "set_limits", "l_1492")
    \/ Step(t, "l_1492", "l_1493") /\ MutexLock(t) /\ SameFlags
    \* thread.c:1493-1497
    \/ shutdown /\ Return(t, "l_1493") /\ MutexUnlock(t) /\ SameFlags
    \/ SetLimitsUnlock(t)
    \* thread.c:1525-1527: thread_count is outside the limits
    \/ Step(t, "l_1525", "r_1212") /\ NoMutex /\ SameFlags
    \/ Return(t, "l_1525") /\ NoMutex /\ SameFlags

\* ---- auto_adjust_thread_function, locks (thread.c:402-527) -----------------
auto_adjust_thread_function_locks(t) ==
    \/ Step(t, "c_416", "c_418") /\ AdjustLock(t) /\ SameFlags
    \* thread.c:418-423 and 453-456: told to stop, or the pool shuts down
    \/ \E from \in {"c_418", "c_453"} :
           /\ ~adjust_thread_running \/ shutdown
           /\ Step(t, from, "c_524") /\ NoMutex /\ SameFlags
    \* thread.c:443: pthread_cond_timedwait gives adjust_cond_lock up ...
    \/ /\ adjust_thread_running /\ ~shutdown
       /\ Step(t, "c_418", "c_443") /\ AdjustUnlock(t) /\ SameFlags
    \* ... and takes it again
    \/ Step(t, "c_443", "c_453") /\ AdjustLock(t) /\ SameFlags
    \* thread.c:459-460
    \/ /\ adjust_thread_running /\ ~shutdown
       /\ Step(t, "c_453", "c_460") /\ AdjustUnlock(t) /\ SameFlags
    \/ Step(t, "c_460", "c_462") /\ MutexLock(t) /\ SameFlags
    \* thread.c:462-505: a new target, pool->lock is released for the resize
    \/ /\ auto_adjust /\ ~shutdown
       /\ Step(t, "c_462", "r_1212") /\ MutexUnlock(t) /\ SameFlags
    \* thread.c:518-521: nothing to adjust
    \/ Step(t, "c_462", "c_521") /\ MutexUnlock(t) /\ SameFlags
    \/ \E from \in {"c_511", "c_521"} :
           Step(t, from, "c_418") /\ AdjustLock(t) /\ SameFlags
    \* thread.c:524-526
    \/ Step(t, "c_524", "exited") /\ AdjustUnlock(t) /\ SameFlags

\* ---- thread_pool_enable_auto_adjust, locks (thread.c:859-950) --------------
CtlAlive == pc["ctl"] \notin {"unborn", "exited"}

thread_pool_enable_auto_adjust_locks(t) ==
    \/ Call(t, "enable_auto_adjust", "e_869")
    \/ Step(t, "e_869", "e_870") /\ MutexLock(t) /\ SameFlags
    \* thread.c:870-895: limits, arguments or shutdown refuse the call
    \/ Return(t, "e_870") /\ MutexUnlock(t) /\ SameFlags
    \* thread.c:897-905: on already; adjust_cond_lock is taken under pool->lock
    \/ /\ ~shutdown /\ auto_adjust
       /\ Step(t, "e_870", "e_899") /\ NoMutex /\ SameFlags
    \/ Step(t, "e_899", "e_904") /\ AdjustLock(t) /\ SameFlags
    \/ Step(t, "e_904", "e_905") /\ AdjustUnlock(t) /\ SameFlags
    \/ Return(t, "e_905") /\ MutexUnlock(t) /\ SameFlags
    \* thread.c:912-931: pthread_mutex_init of adjust_cond_lock; a thread that
    \* holds the mutex being initialised keeps it or loses it (undefined)
    \/ /\ ~shutdown /\ ~auto_adjust
       /\ Step(t, "e_870", "e_933")
       /\ auto_adjust' = TRUE
       /\ adjust_thread_running' = TRUE
       /\ adjust_cond_lock_init' = TRUE
       /\ adjust_cond_lock' \in {"free", adjust_cond_lock}
       /\ UNCHANGED <<lock, resize_lock, shutdown, adjust_thread>>
    \* thread.c:933: pthread_create of the auto-adjust thread, under pool->lock.
    \* One such thread is followed: if the previous one is still running the
    \* new one is not.
    \/ /\ ~Freed
       /\ pc[t] = "e_933"
       /\ pc' = [pc EXCEPT ![t] = "e_948",
                           !["ctl"] = IF CtlAlive THEN pc["ctl"] ELSE "c_416"]
       /\ adjust_thread' = TRUE
       /\ UNCHANGED <<lockFrame, fn, mutexVars, shutdown, auto_adjust,
                      adjust_thread_running, adjust_cond_lock_init>>
       /\ ret' = NoRet
    \* thread.c:934-940: pthread_create failed, all is taken back
    \/ /\ Step(t, "e_933", "e_948")
       /\ auto_adjust' = FALSE
       /\ adjust_thread_running' = FALSE
       /\ adjust_cond_lock_init' = FALSE
       /\ UNCHANGED <<mutexVars, shutdown, adjust_thread>>
    \* thread.c:940-949
    \/ Return(t, "e_948") /\ MutexUnlock(t) /\ SameFlags

\* ---- thread_pool_disable_auto_adjust, locks (thread.c:1576-1670) -----------
\* the call returns: to thread_pool_destroy (thread.c:969-989) or to the client
DisableReturns(t, from) ==
    IF Caller(t) = "destroy"
    THEN Step(t, from, "x_995")
    ELSE Return(t, from)

\* faulty variant of DisableJoin: the auto-adjust thread is not waited for
DisableNoJoin(t) ==
    /\ Step(t, "d_1633", "d_1660") /\ NoMutex
    /\ adjust_cond_lock_init' = FALSE
    /\ adjust_thread' = FALSE
    /\ UNCHANGED <<shutdown, auto_adjust, adjust_thread_running>>

\* thread.c:1633-1658: pthread_join of the auto-adjust thread, then
\* pthread_cond_destroy and pthread_mutex_destroy
DisableJoin(t) ==
    /\ ~CtlAlive
    /\ Step(t, "d_1633", "d_1660") /\ NoMutex
    /\ adjust_cond_lock_init' = FALSE
    /\ adjust_thread' = FALSE
    /\ UNCHANGED <<shutdown, auto_adjust, adjust_thread_running>>

thread_pool_disable_auto_adjust_locks(t) ==
    \/ Call(t, "disable_auto_adjust", "d_1587")
    \/ Step(t, "d_1587", "d_1588") /\ MutexLock(t) /\ SameFlags
    \* thread.c:1588-1593: off already
    \/ ~auto_adjust /\ DisableReturns(t, "d_1588") /\ MutexUnlock(t) /\ SameFlags
    \* thread.c:1602-1608: the thread is told to stop, pool->lock is released
    \/ /\ auto_adjust /\ adjust_thread_running
       /\ Step(t, "d_1588", "d_1611") /\ MutexUnlock(t)
       /\ adjust_thread_running' = FALSE
       /\ UNCHANGED <<shutdown, auto_adjust, adjust_cond_lock_init, adjust_thread>>
    \* thread.c:1611-1621: two broadcasts under adjust_cond_lock
    \/ Step(t, "d_1611", "d_1613") /\ AdjustLock(t) /\ SameFlags
    \/ Step(t, "d_1613", "d_1619") /\ AdjustUnlock(t) /\ SameFlags
    \/ Step(t, "d_1619", "d_1621") /\ AdjustLock(t) /\ SameFlags
    \/ Step(t, "d_1621", "d_1633") /\ AdjustUnlock(t) /\ SameFlags
    \/ DisableJoin(t)
    \/ Step(t, "d_1660", "d_1666") /\ MutexLock(t) /\ SameFlags
    \* thread.c:1666-1669, reached with pool->lock held on both paths
    \/ \E from \in {"d_1588", "d_1666"} :
           /\ from = "d_1588" => (auto_adjust /\ ~adjust_thread_running)
           /\ DisableReturns(t, from) /\ MutexUnlock(t)
           /\ auto_adjust' = FALSE
           /\ UNCHANGED <<shutdown, adjust_thread_running,
                          adjust_cond_lock_init, adjust_thread>>

\* ---- thread_pool_destroy, locks (thread.c:952-1191) ------------------------
\* the call is made once: a second one would be handed a freed pool
thread_pool_destroy_locks(t) ==
    \* thread.c:961-969: auto_adjust is read without a lock
    \/ /\ \A u \in LockClients : fn[u] # "destroy"
       /\ Call(t, "destroy", IF auto_adjust THEN "d_1587" ELSE "x_995")
    \/ Step(t, "x_995", "x_996") /\ ResizeLock(t) /\ SameFlags
    \* thread.c:996-1005
    \/ /\ Step(t, "x_996", "x_1008") /\ ResizeUnlock(t)
       /\ auto_adjust' = FALSE
       /\ UNCHANGED <<shutdown, adjust_thread_running, adjust_cond_lock_init,
                      adjust_thread>>
    \/ Step(t, "x_1008", "x_1022") /\ MutexLock(t) /\ SameFlags
    \* thread.c:1009-1028
    \/ /\ Step(t, "x_1022", "x_1035") /\ MutexUnlock(t)
       /\ shutdown' = TRUE
       /\ UNCHANGED <<auto_adjust, adjust_thread_running, adjust_cond_lock_init,
                      adjust_thread>>
    \* thread.c:1035-1051: three broadcasts
    \/ Step(t, "x_1035", "x_1037") /\ MutexLock(t) /\ SameFlags
    \/ Step(t, "x_1037", "x_1040") /\ MutexUnlock(t) /\ SameFlags
    \/ Step(t, "x_1040", "x_1042") /\ ResizeLock(t) /\ SameFlags
    \/ Step(t, "x_1042", "x_1049") /\ ResizeUnlock(t) /\ SameFlags
    \/ Step(t, "x_1049", "x_1051") /\ MutexLock(t) /\ SameFlags
    \/ Step(t, "x_1051", "x_1054") /\ MutexUnlock(t) /\ SameFlags
    \* thread.c:1054-1086: an auto-adjust thread started meanwhile is joined
    \/ adjust_thread /\ Step(t, "x_1054", "x_1064") /\ NoMutex /\ SameFlags
    \/ Step(t, "x_1064", "x_1066") /\ ResizeLock(t) /\ SameFlags
    \/ Step(t, "x_1066", "x_1069") /\ ResizeUnlock(t) /\ SameFlags
    \/ /\ ~CtlAlive
       /\ Step(t, "x_1069", "x_1103") /\ NoMutex
       /\ adjust_thread' = FALSE
       /\ UNCHANGED <<shutdown, auto_adjust, adjust_thread_running,
                      adjust_cond_lock_init>>
    \/ ~adjust_thread /\ Step(t, "x_1054", "x_1103") /\ NoMutex /\ SameFlags
    \* thread.c:1090-1162: the join loop
    \/ Step(t, "x_1103", "x_1105") /\ MutexLock(t) /\ SameFlags
    \/ Step(t, "x_1105", "x_1121") /\ MutexUnlock(t) /\ SameFlags
    \/ pc["w1"] = "exited" /\ Step(t, "x_1121", "x_1164") /\ NoMutex /\ SameFlags
    \* thread.c:1164-1190: the queue, the mutexes and the pool are released
    \/ Step(t, "x_1164", "x_1190") /\ NoMutex /\ SameFlags

\* ---- the API called with arguments that may be invalid --------------------
poolVars == <<queueVars, limitVars, threadVars, shutdown, resizeVars,
              limits_target, destroyVars, limits_args, adjust_target,
              adjustVars, lockVars>>

\* thread.c:761-811 with the test of the arguments (thread.c:764-768);
\* function is "NULL" or "fn", a task function
AddTaskCall(function, p, ids) ==
    IF PoolIsNull \/ function = "NULL"
    THEN /\ ret' = Ret("add_task", -1)
         /\ UNCHANGED poolVars
    ELSE thread_pool_add_task(p, ids)

\* thread.c:1479-1537 with the test of the handle (thread.c:1481-1484); the
\* test of the two limits (thread.c:1486-1490) is in thread_pool_set_limits
SetLimitsCall(mn, mx) ==
    IF PoolIsNull
    THEN /\ ret' = Ret("set_limits", -1)
         /\ UNCHANGED poolVars
    ELSE thread_pool_set_limits(mn, mx)

\* faulty variant of thread_pool_enable_auto_adjust: the watermarks and the
\* interval are stored before they are tested
EnableStoreFirst(high, low, interval) ==
    /\ destroy_pc # "done"
    /\ ~PoolIsNull
    /\ high_watermark' = high
    /\ low_watermark' = low
    /\ adjust_interval' = interval
    /\ IF \/ min_threads <= 0 \/ max_threads <= 0 \/ min_threads > max_threads
          \/ high <= 0 \/ low < 0 \/ interval <= 0
          \/ shutdown
       THEN /\ ret' = Ret("enable_auto_adjust", -1)
            /\ UNCHANGED <<auto_adjust, adjust_thread_running>>
       ELSE /\ auto_adjust' = TRUE
            /\ adjust_thread_running' = IF auto_adjust THEN adjust_thread_running
                                        ELSE TRUE
            /\ ret' = Ret("enable_auto_adjust", 0)
    /\ UNCHANGED <<queueVars, limitVars, threadVars, shutdown, resizeVars,
                   limits_target, destroyVars, limits_args, adjust_target,
                   lockVars>>

\* thread_pool_enable_auto_adjust (thread.c:859-950) when pthread_mutex_init,
\* pthread_cond_init and pthread_create succeed: the tests of the limits, of
\* the arguments and of shutdown, then the update of a pool that adjusts
\* already (thread.c:897-909) or the start of the auto-adjust thread
\* (thread.c:912-949)
thread_pool_enable_auto_adjust(high, low, interval) ==
    /\ destroy_pc # "done"
    /\ IF \/ PoolIsNull
          \/ min_threads <= 0 \/ max_threads <= 0 \/ min_threads > max_threads
          \/ high <= 0 \/ low < 0 \/ interval <= 0
          \/ shutdown
       THEN /\ ret' = Ret("enable_auto_adjust", -1)
            /\ UNCHANGED adjustVars
       ELSE /\ high_watermark' = high
            /\ low_watermark' = low
            /\ adjust_interval' = interval
            /\ auto_adjust' = TRUE
            /\ adjust_thread_running' = IF auto_adjust THEN adjust_thread_running
                                        ELSE TRUE
            /\ ret' = Ret("enable_auto_adjust", 0)
    /\ UNCHANGED <<queueVars, limitVars, threadVars, shutdown, resizeVars,
                   limits_target, destroyVars, limits_args, adjust_target,
                   lockVars>>

\* thread_pool_disable_auto_adjust (thread.c:1576-1670): the auto-adjust
\* thread is told to stop and joined, auto_adjust is cleared.  pthread_join
\* (thread.c:1633) returns when the thread has left its loop, which it does
\* not do in the middle of a resize.
thread_pool_disable_auto_adjust ==
    /\ destroy_pc # "done"
    /\ adjust_target = 0
    /\ IF PoolIsNull
       THEN /\ ret' = Ret("disable_auto_adjust", -1)
            /\ UNCHANGED adjustVars
       ELSE /\ auto_adjust' = FALSE
            /\ adjust_thread_running' = IF auto_adjust THEN FALSE
                                        ELSE adjust_thread_running
            /\ ret' = Ret("disable_auto_adjust", 0)
            /\ UNCHANGED <<high_watermark, low_watermark, adjust_interval>>
    /\ UNCHANGED <<queueVars, limitVars, threadVars, shutdown, resizeVars,
                   limits_target, destroyVars, limits_args, adjust_target,
                   lockVars>>

\* ---- auto_adjust_thread_function (thread.c:402-527) ------------------------
\* faulty variant of AutoAdjustTarget: max_threads is not looked at
AutoAdjustTargetNoMax(current, tasks, idle) ==
    IF tasks > high_watermark THEN current + 1
    ELSE IF idle > low_watermark /\ current > min_threads THEN current - 1
    ELSE current

\* faulty variant of AutoAdjustTarget: a long queue asks for no thread
AutoAdjustTargetNoGrow(current, tasks, idle) ==
    IF idle > low_watermark /\ current > min_threads THEN current - 1
    ELSE current

\* thread.c:463-494: target_threads, from the snapshot current_threads,
\* tasks_in_queue and idle; a target that differs from current_threads is
\* brought into min_threads..max_threads
AutoAdjustTarget(current, tasks, idle) ==
    LET target == IF tasks > high_watermark /\ current < max_threads
                  THEN current + 1
                  ELSE IF idle > low_watermark /\ current > min_threads
                  THEN current - 1
                  ELSE current
    IN  IF target = current THEN target
        ELSE IF target > max_threads
        THEN (IF max_threads < min_threads THEN min_threads ELSE max_threads)
        ELSE IF target < min_threads THEN min_threads
        ELSE target

\* thread.c:453-518: the wait is over and the thread was not told to stop; one
\* check under pool->lock.  The thread lives from thread_pool_enable_auto_adjust
\* to the join of thread_pool_disable_auto_adjust, which is while
\* adjust_thread_running is set.  A target that differs from thread_count is
\* kept for the call of thread_pool_resize, made after pool->lock is released.
AutoAdjustCheck ==
    /\ destroy_pc # "done"
    /\ adjust_thread_running
    /\ ~shutdown
    /\ adjust_target = 0
    /\ resize_lock # "ctl"
    /\ IF auto_adjust
       THEN LET target == AutoAdjustTarget(thread_count, task_queue_size,
                                           idle_threads)
            IN  /\ adjust_target' = IF target # thread_count THEN target ELSE 0
                /\ ret' = RetArgs("auto_adjust", 0, target, thread_count)
       ELSE /\ adjust_target' = 0
            /\ ret' = RetArgs("auto_adjust", 0, thread_count, thread_count)
    /\ UNCHANGED <<queueVars, limitVars, threadVars, shutdown, resizeVars,
                   limits_target, destroyVars, limits_args, adjustVars, lockVars>>

\* thread.c:505-512: the calls of thread_pool_resize by the auto-adjust thread
AutoAdjustResize ==
    \/ \E t \in Targets : ResizeEnter("ctl", t)
    \/ ResizeCheckMin("ctl")
    \/ ResizeCheckMax("ctl")
    \/ ResizeBody("ctl")

\* ---- thread_pool_cancel_task (called by the tests; cancel_by_id) -----------
\* the outcomes of a cancellation: 0 and -1 are the values the tests compare
\* with (thread_cancel_test.c:138, 211)
CANCELLED == 0
CANCEL_RUNNING == -1
CANCEL_NOT_FOUND == CANCEL_RUNNING - 1
CANCEL_ERR_ARG == CANCEL_NOT_FOUND - 1

\* the queue without the node of task id
Unlink(q, id) == SelectSeq(q, LAMBDA t : t.id # id)

\* pool->tail after the unlink: the node that is last now
UnlinkTail(q, id) ==
    IF Unlink(q, id) = <<>> THEN 0 ELSE Unlink(q, id)[Len(Unlink(q, id))].id

\* cancel_by_id(task_id, cb): a queued task is unlinked and cb is called once
\* with its argument and id; a task that a worker is running is left alone.
\* ret.arg is task_id, ret.arg2 the number of calls of cb.
thread_pool_cancel_task(id) ==
    /\ destroy_pc = "no" /\ ~shutdown
    /\ IF id = 0
       THEN /\ ret' = RetArgs("cancel_task", CANCEL_ERR_ARG, id, 0)
            /\ UNCHANGED queueVars
       ELSE IF id \in QueuedIds
       THEN /\ queue' = Unlink(queue, id)
            /\ tail' = UnlinkTail(queue, id)
            /\ task_queue_size' = task_queue_size - 1
            /\ ret' = RetArgs("cancel_task", CANCELLED, id, 1)
       ELSE IF id \in RunningIds
       THEN /\ ret' = RetArgs("cancel_task", CANCEL_RUNNING, id, 0)
            /\ UNCHANGED queueVars
       ELSE /\ ret' = RetArgs("cancel_task", CANCEL_NOT_FOUND, id, 0)
            /\ UNCHANGED queueVars
    /\ UNCHANGED <<limitVars, threadVars, shutdown, resizeVars, limits_target,
                   destroyVars>>
    /\ UNCHANGED <<limits_args, adjust_target, adjustVars, lockVars>>

\* ---- specifications -------------------------------------------------------
Clients == {"api", "lim"}
PoolPriorities == {TASK_PRIORITY_HIGH, TASK_PRIORITY_NORMAL}

WorkerStep ==
    \/ \E w \in WorkerIds : WorkerExit(w)
    \/ \E w \in WorkerIds : WorkerDispatch(w)
    \/ \E w \in WorkerIds : WorkerFinish(w)

ResizeStep ==
    \/ \E t \in Targets : ResizeEnter("api", t)
    \/ \E t \in Targets : ResizeEnter("lim", t)
    \/ \E c \in Clients : ResizeCheckMin(c)
    \/ \E c \in Clients : ResizeCheckMax(c)
    \/ \E c \in Clients : ResizeBody(c)
    \/ \E mn, mx \in 0..MaxLimit : thread_pool_set_limits(mn, mx)

DestroyStep ==
    \/ DestroyBegin
    \/ DestroyJoin
    \/ DestroyFinish
    \/ \E w \in WorkerIds : WorkerUseAfterFree(w)

\* the pool when malloc and pthread_create never fail
NextNoFail ==
    \/ \E p \in PoolPriorities : thread_pool_add_task(p, 1..MaxTasks)
    \/ WorkerStep
    \/ ResizeStep
    \/ DestroyStep

SpecNoFail == Init /\ [][NextNoFail]_vars

\* the whole pool
Next ==
    \/ NextNoFail
    \/ \E c \in Clients : ResizeGrowFail(c)

Spec == Init /\ [][Next]_vars

\* the queue under producers, one worker and destroy: more tasks at a time, of
\* every priority
NextQueue ==
    \/ \E p \in Priorities : thread_pool_add_task(p, 1..MaxQueue)
    \/ WorkerStep
    \/ DestroyBegin
    \/ DestroyJoin
    \/ DestroyFinish

SpecQueue == Init /\ [][NextQueue]_vars

\* the pool that is never destroyed, under a fair scheduler: a worker that
\* can take a step takes it (the wait on pool->notify times out after one
\* second, thread.c:226-243, and task functions return)
NextLive ==
    \/ \E p \in PoolPriorities : thread_pool_add_task(p, 1..MaxTasks)
    \/ WorkerStep
    \/ \E t \in Targets : ResizeEnter("api", t)
    \/ ResizeCheckMin("api")
    \/ ResizeCheckMax("api")
    \/ ResizeBody("api")

Fairness ==
    \A w \in WorkerIds :
        /\ WF_vars(WorkerExit(w))
        /\ WF_vars(WorkerDispatch(w))
        /\ WF_vars(WorkerFinish(w))

SpecLive == Init /\ [][NextLive]_vars /\ Fairness

\* create(n), submits and destroy under a fair scheduler: the workers as in
\* SpecLive, and thread_pool_destroy, once called, runs on (pthread_join
\* returns when the thread it waits for has ended)
InitDestroy == \E n \in 1..MaxCreate : InitPool(n)

NextDestroy ==
    \/ \E p \in PoolPriorities : thread_pool_add_task(p, 1..MaxTasks)
    \/ WorkerStep
    \/ DestroyBegin
    \/ DestroyJoin
    \/ DestroyFinish

SpecDestroy ==
    /\ InitDestroy
    /\ [][NextDestroy]_vars
    /\ Fairness
    /\ WF_vars(DestroyJoin)
    /\ WF_vars(DestroyFinish)

\* a caller that passes valid and invalid arguments: thread_pool_create(n)
\* for n from -1, then submits of one task at a time, with and without a task
\* function, every pair of limits, every triple of watermarks and interval
Watermarks == -1..MaxWatermark
Intervals == {0, DEFAULT_ADJUST_INTERVAL}
Functions == {"NULL", "fn"}

InitApi == \E n \in -1..MaxCreate : IF n <= 0 THEN NoPool ELSE InitPool(n)

NextApi ==
    \/ \E function \in Functions : AddTaskCall(function, TASK_PRIORITY_NORMAL, {1})
    \/ WorkerStep
    \/ \E mn, mx \in 0..MaxLimit : SetLimitsCall(mn, mx)
    \/ \E t \in Targets : ResizeEnter("lim", t)
    \/ ResizeCheckMin("lim")
    \/ ResizeCheckMax("lim")
    \/ ResizeBody("lim")
    \/ \E high, low \in Watermarks, interval \in Intervals :
           thread_pool_enable_auto_adjust(high, low, interval)
    \/ thread_pool_disable_auto_adjust

SpecApi == InitApi /\ [][NextApi]_vars

\* the pool with its auto-adjust thread, next to callers of submit, resize,
\* set_limits, enable and disable; malloc and pthread_create do not fail
HighWatermarks == 1..MaxWatermark
LowWatermarks == 0..MaxWatermark

InitAdjust == \E n \in 1..MaxInit : InitPool(n)

NextAdjust ==
    \/ thread_pool_add_task(TASK_PRIORITY_NORMAL, 1..MaxTasks)
    \/ WorkerStep
    \/ \E high \in HighWatermarks, low \in LowWatermarks :
           thread_pool_enable_auto_adjust(high, low, DEFAULT_ADJUST_INTERVAL)
    \/ thread_pool_disable_auto_adjust
    \/ AutoAdjustCheck
    \/ AutoAdjustResize
    \/ \E t \in Targets : ResizeEnter("api", t)
    \/ ResizeCheckMin("api")
    \/ ResizeCheckMax("api")
    \/ ResizeBody("api")
    \/ \E mn, mx \in 1..MaxLimit : thread_pool_set_limits(mn, mx)
    \/ \E t \in Targets : ResizeEnter("lim", t)
    \/ ResizeCheckMin("lim")
    \/ ResizeCheckMax("lim")
    \/ ResizeBody("lim")

SpecAdjust == InitAdjust /\ [][NextAdjust]_vars

\* the pool and its auto-adjust thread under load: submits, workers, enable and
\* disable, no other caller of resize.  The auto-adjust thread runs on: its
\* wait ends after adjust_interval at the latest (thread.c:443), and
\* resize_lock is free whenever it calls thread_pool_resize.  Nothing is
\* assumed about the workers: a task may run for any time.
NextAdjustLive ==
    \/ thread_pool_add_task(TASK_PRIORITY_NORMAL, 1..MaxTasks)
    \/ WorkerStep
    \/ \E high \in HighWatermarks, low \in LowWatermarks :
           thread_pool_enable_auto_adjust(high, low, DEFAULT_ADJUST_INTERVAL)
    \/ thread_pool_disable_auto_adjust
    \/ AutoAdjustCheck
    \/ AutoAdjustResize

SpecAdjustLive ==
    /\ InitAdjust
    /\ [][NextAdjustLive]_vars
    /\ WF_vars(AutoAdjustCheck)
    /\ WF_vars(AutoAdjustResize)

\* the locks: two clients calling the API, one worker, the auto-adjust thread.
\* Client "u1" calls every function; client "u2" calls the four that lock a
\* second mutex while they hold one.
NextLocks ==
    \/ worker_thread_function_locks("w1")
    \/ auto_adjust_thread_function_locks("ctl")
    \/ \E t \in LockClients \cup {"ctl"} : thread_pool_resize_locks(t)
    \/ \E t \in LockClients : thread_pool_add_task_locks(t)
    \/ \E t \in LockClients : thread_pool_set_limits_locks(t)
    \/ \E t \in LockClients : thread_pool_enable_auto_adjust_locks(t)
    \/ thread_pool_disable_auto_adjust_locks("u1")
    \/ thread_pool_destroy_locks("u1")

SpecLocks == Init /\ [][NextLocks]_vars

\* enable and disable called by two clients at any time, with the auto-adjust
\* thread and its resizes
NextToggle ==
    \/ auto_adjust_thread_function_locks("ctl")
    \/ thread_pool_resize_locks("ctl")
    \/ \E t \in LockClients : thread_pool_enable_auto_adjust_locks(t)
    \/ \E t \in LockClients : thread_pool_disable_auto_adjust_locks(t)

SpecToggle == Init /\ [][NextToggle]_vars

\* submits of every priority, the workers and cancellations by id, from a
\* pool of one or two workers
NextCancel ==
    \/ \E p \in Priorities : thread_pool_add_task(p, 1..MaxTasks)
    \/ \E w \in WorkerIds : WorkerDispatch(w)
    \/ \E w \in WorkerIds : WorkerFinish(w)
    \/ \E id \in 0..MaxTasks : thread_pool_cancel_task(id)

SpecCancel == InitDestroy /\ [][NextCancel]_vars

\* named and unnamed submits of every priority and the workers, from a pool
\* of one or two workers
NextNames ==
    \/ \E p \in Priorities, n \in NameArgs :
           thread_pool_add_task_name(p, 1..MaxTasks, n)
    \/ \E w \in WorkerIds : WorkerDispatch(w)
    \/ \E w \in WorkerIds : WorkerFinish(w)

SpecNames == InitDestroy /\ [][NextNames]_vars

\* grows of more than one worker that can fail at any spawn: the limits go up
\* to MaxSpawn, the targets as well
NextGrowFail ==
    \/ thread_pool_add_task(TASK_PRIORITY_NORMAL, {1})
    \/ WorkerStep
    \/ \E mn, mx \in 1..MaxSpawn : thread_pool_set_limits(mn, mx)
    \/ \E t \in 1..MaxSpawn : ResizeEnter("api", t)
    \/ \E t \in 1..MaxSpawn : ResizeEnter("lim", t)
    \/ \E c \in Clients : ResizeCheckMin(c)
    \/ \E c \in Clients : ResizeCheckMax(c)
    \/ \E c \in Clients : ResizeBody(c)
    \/ \E c \in Clients : ResizeGrowFail(c)

SpecGrowFail == Init /\ [][NextGrowFail]_vars

\* ---- properties of the task queue ------------------------------------------
PosOf(q, id) == CHOOSE k \in 1..Len(q) : q[k].id = id
IdsOf(q) == {q[k].id : k \in 1..Len(q)}
PrioOf(q, id) == q[PosOf(q, id)].priority

\* w goes from waiting to running a task in this step
Dispatches(w) == workers[w].pc = "loop" /\ workers'[w].pc = "busy"

\* C1: whenever a worker dequeues a task, the task it takes is one of the
\* queue and no task of the queue at that moment has a smaller priority value
C1_PriorityOrder ==
    [][\A w \in WorkerIds :
          Dispatches(w) =>
              \E k \in 1..Len(queue) :
                  /\ queue[k] = workers'[w].task
                  /\ \A j \in 1..Len(queue) : queue[k].priority <= queue[j].priority]_vars

\* a worker runs a task although a task submitted before it, of a larger
\* priority value, is still queued
C1_Witness ==
    \E w \in WorkerIds : \E k \in 1..Len(queue) :
        /\ workers[w].pc = "busy"
        /\ workers[w].task.priority < queue[k].priority
        /\ workers[w].task.id > queue[k].id

\* C2: tasks of equal priority leave the queue in the order their submits
\* enqueued them: a step never swaps two queued tasks of equal priority, a new
\* task is linked behind every queued task of its priority, and no task is
\* dequeued while a task of its priority stands ahead of it
C2_FifoAmongEqual ==
    [][/\ \A a, b \in IdsOf(queue) \cap IdsOf(queue') :
             (/\ PrioOf(queue, a) = PrioOf(queue, b)
              /\ PosOf(queue, a) < PosOf(queue, b))
                 => PosOf(queue', a) < PosOf(queue', b)
       /\ \A n \in IdsOf(queue') \ IdsOf(queue) : \A a \in IdsOf(queue) :
             PrioOf(queue, a) = PrioOf(queue', n)
                 => PosOf(queue', a) < PosOf(queue', n)
       /\ \A w \in WorkerIds :
             Dispatches(w) =>
                 \A a \in IdsOf(queue) :
                     (/\ a # workers'[w].task.id
                      /\ PrioOf(queue, a) = workers'[w].task.priority)
                         => PosOf(queue, workers'[w].task.id) < PosOf(queue, a)]_vars

\* a worker runs a task while two tasks of one priority and a task of another
\* priority are queued
C2_Witness ==
    /\ \E w \in WorkerIds : workers[w].pc = "busy"
    /\ \E i, j, m \in 1..Len(queue) :
          /\ i < j
          /\ queue[i].priority = queue[j].priority
          /\ queue[m].priority < queue[i].priority

\* ---- liveness of accepted tasks ---------------------------------------------
\* C3 as stated: every accepted task is eventually dequeued and executed
C3_EveryTaskRuns ==
    \A t \in 1..MaxTasks : (t \in QueuedIds) ~> (t \in RunningIds)

\* the last step was a submit that linked its task ahead of the queued task t
Overtaken(t) ==
    /\ ret.op = "add_task"
    /\ ret.arg \in QueuedIds \ {t}
    /\ t \in QueuedIds
    /\ PosOf(queue, ret.arg) < PosOf(queue, t)

\* C3, amended: a queued task is eventually executed unless a later submit of
\* a smaller priority value is linked ahead of it, so it is executed whenever
\* only finitely many such submits arrive while it waits
C3_RunsUnlessOvertaken ==
    \A t \in 1..MaxTasks :
        (t \in QueuedIds) ~> (t \in RunningIds \/ Overtaken(t))

\* a worker runs a task that waited in the queue behind another one, in a
\* pool whose thread count was changed by a resize
C3_Witness ==
    /\ \E w \in WorkerIds :
          /\ workers[w].pc = "busy"
          /\ workers[w].task.priority = TASK_PRIORITY_NORMAL
          /\ \E k \in 1..Len(queue) : queue[k].priority = TASK_PRIORITY_HIGH
    /\ started > thread_count

\* ---- properties of submit and dispatch --------------------------------------
BusyWorkers == {w \in WorkerIds : workers[w].pc = "busy"}

\* no task is in two places: the queued ids are distinct, none of them is
\* being run, and no two workers run the same task
NoTaskTwice ==
    /\ Cardinality(IdsOf(queue)) = Len(queue)
    /\ IdsOf(queue) \cap RunningIds = {}
    /\ \A v, w \in BusyWorkers : v # w => workers[v].task.id # workers[w].task.id

\* every task that leaves the queue in this step is taken by exactly one
\* worker, which starts to run it, unless the step is the drain of destroy; a
\* worker starts a task only by taking it out of the queue
LeavesByDispatchOrDrain ==
    /\ \A t \in IdsOf(queue) \ IdsOf(queue') :
          \/ destroy_pc = "join" /\ destroy_pc' = "done"
          \/ /\ Cardinality({w \in WorkerIds : Dispatches(w)}) = 1
             /\ \E w \in WorkerIds :
                   Dispatches(w) /\ workers'[w].task = queue[PosOf(queue, t)]
    /\ \A w \in WorkerIds :
          /\ Dispatches(w) => /\ workers'[w].task.id \in IdsOf(queue) \ IdsOf(queue')
                              /\ Cardinality(IdsOf(queue) \ IdsOf(queue')) = 1
          /\ (workers'[w].pc = "busy" /\ ~Dispatches(w)) => workers'[w] = workers[w]

\* C4: each accepted task is dequeued by at most one worker and run at most
\* once, and a task leaves the queue only by being dispatched or by being
\* dropped at destroy
C4_AtMostOnce == [][NoTaskTwice /\ NoTaskTwice' /\ LeavesByDispatchOrDrain]_vars

\* two workers run two tasks at the same time while the pool is shutting down
C4_Witness ==
    /\ \E v, w \in BusyWorkers : v # w
    /\ shutdown

\* C5: while shutdown is set no step adds a task to the queue, and a submit
\* that returns has returned -1 and left the queue as it was
C5_SubmitAfterShutdown ==
    [][shutdown =>
          /\ IdsOf(queue') \subseteq IdsOf(queue)
          /\ task_queue_size' <= task_queue_size
          /\ ret'.op = "add_task" => (ret'.val = -1 /\ UNCHANGED queueVars)]_vars

\* a submit was turned down while tasks were still queued
C5_Witness ==
    /\ shutdown
    /\ ret = Ret("add_task", -1)
    /\ queue # <<>>

\* ---- properties of the counters ---------------------------------------------
\* C6: while the pool is not being destroyed, 0 <= idle_threads <= thread_count
C6_IdleWithinCount ==
    destroy_pc = "no" => (0 <= idle_threads /\ idle_threads <= thread_count)

\* C7: every snapshot that get_stats returns has
\* min_threads <= thread_count <= max_threads
C7_SnapshotWithinLimits ==
    thread_pool_get_stats.ok =>
        /\ thread_pool_get_stats.min_threads <= thread_pool_get_stats.thread_count
        /\ thread_pool_get_stats.thread_count <= thread_pool_get_stats.max_threads

\* ---- properties of resize -----------------------------------------------------
\* the range test of the resize in progress finds its target out of range
OutOfRange ==
    \/ resize_pc = "min" /\ resize_target < min_threads
    \/ resize_pc = "max" /\ resize_target > max_threads

\* C8: the step of a resize that finds its target below min_threads or above
\* max_threads returns -1 and changes nothing of the pool
C8_OutOfRangeRejected ==
    [][(OutOfRange /\ resize_pc' # resize_pc) =>
          /\ ret'.op \in {"resize", "set_limits"}
          /\ ret'.val = -1
          /\ resize_lock' = "free"
          /\ UNCHANGED <<queueVars, limitVars, threadVars, shutdown>>]_vars

\* a resize of a pool that is not shut down has returned -1
C8_Witness ==
    /\ ret.op = "resize"
    /\ ret.val = -1
    /\ ~shutdown
    /\ thread_count <= max_threads
    /\ thread_count >= min_threads

\* w is alive but its index was given up by a shrink: the index is beyond
\* thread_count, or a later grow gave the slot to another thread
Released(w) ==
    /\ Alive(w)
    /\ \/ workers[w].thread_id >= thread_count
       \/ threads[workers[w].thread_id] # w

\* C9: a shrink returns 0 at once with thread_count equal to its target and
\* without a change to any worker, and a worker whose index a shrink gave up
\* dequeues no further task
C9_ShrinkReleasesWorkers ==
    [][/\ (resize_pc = "body" /\ resize_pc' = "-" /\ ~shutdown
              /\ resize_target < thread_count)
          => (/\ thread_count' = resize_target
              /\ ret'.val = 0
              /\ workers' = workers)
       /\ \A w \in WorkerIds : (destroy_pc = "no" /\ Released(w)) => ~Dispatches(w)]_vars

\* ---- properties of destroy ----------------------------------------------------
\* C10: when destroy has returned, every worker ever spawned has terminated
C10_AllWorkersTerminated ==
    destroy_pc = "done" => \A w \in WorkerIds : workers[w].pc \in {"unborn", "exited"}

\* C11: a task that is still queued when destroy sets shutdown is dropped
\* without being executed: once shutdown is set no worker dequeues a task
C11_QueuedTasksDropped ==
    [][shutdown => \A w \in WorkerIds : ~Dispatches(w)]_vars

\* C12: a call to destroy eventually returns, with every worker whose index
\* is below thread_count joined and ended, and no worker is left waiting
C12_DestroyTerminates ==
    /\ (destroy_pc = "join") ~> (destroy_pc = "done")
    /\ [](destroy_pc = "done" =>
            /\ ret = Ret("destroy", 0)
            /\ \A i \in 0..(thread_count - 1) : threads[i] = 0
            /\ \A w \in WorkerIds : ~Alive(w))

\* destroy has returned after two workers ran tasks that were queued when it
\* was called
C12_Witness ==
    /\ destroy_pc = "done"
    /\ thread_count = MaxCreate
    /\ \A w \in 1..MaxCreate : workers[w].pc = "exited"

\* C17: a thread_pool_set_limits(new_min, new_max) that returns 0 leaves
\* min_threads = new_min and max_threads = new_max; a thread_count it found
\* inside the new range is unchanged, one it found outside has been moved to
\* the nearer boundary: new_min if it was below, new_max if it was above
C17_SetLimitsPost ==
    [][/\ (ret'.op = "set_limits" /\ ret'.val = 0) =>
            /\ min_threads' = ret'.arg
            /\ max_threads' = ret'.arg2
            /\ IF limits_target = 0
               THEN /\ thread_count' = thread_count
                    /\ min_threads' <= thread_count
                    /\ thread_count <= max_threads'
               ELSE thread_count' = limits_target
       /\ (limits_target = 0 /\ limits_target' # 0) =>
            /\ limits_args' = <<min_threads', max_threads'>>
            /\ \/ thread_count < min_threads' /\ limits_target' = min_threads'
               \/ thread_count > max_threads' /\ limits_target' = max_threads'
       /\ (limits_target # 0 /\ limits_target' # 0) =>
            UNCHANGED <<limitVars, limits_target, limits_args>>]_vars

\* thread_pool_set_limits(2, 2) has returned 0 on a pool created with one
\* thread, which now has two
C17_Witness ==
    /\ ret = RetArgs("set_limits", 0, 2, 2)
    /\ thread_count = 2
    /\ started = 2

\* C20: a thread_pool_resize(n) on a pool whose thread_count is n already and
\* lies within the limits passes the range test, returns 0 and changes
\* nothing: no worker is spawned or told to exit
C20_ResizeIdempotent ==
    [][/\ (resize_pc = "min" /\ resize_pc' # "min" /\ resize_target = thread_count
            /\ min_threads <= thread_count) => resize_pc' = "max"
       /\ (resize_pc = "max" /\ resize_pc' # "max" /\ resize_target = thread_count
            /\ thread_count <= max_threads) => resize_pc' = "body"
       /\ (resize_pc = "body" /\ resize_pc' # "body" /\ resize_target = thread_count
            /\ ~shutdown) =>
               /\ ret'.op \in {"resize", "set_limits"}
               /\ ret'.val = 0
               /\ UNCHANGED <<threadVars, queueVars, limitVars, shutdown>>]_vars

\* thread_pool_resize(2) has returned 0 on a pool that an earlier resize had
\* brought from one thread to two, and no third worker was spawned
C20_Witness ==
    /\ ret = RetArgs("resize", 0, 2, 2)
    /\ thread_count = 2
    /\ started = 2
    /\ ~resize_shutdown

ArgsRejected(op) ==
    /\ ret' = Ret(op, -1)
    /\ UNCHANGED <<queueVars, limitVars, threadVars, adjustVars, shutdown,
                   limits_target, limits_args, resizeVars>>

\* C19: thread_pool_create(n) with n <= 0 gives no pool and no worker; a
\* submit with a null function, a set_limits with new_min < 1 or
\* new_max < new_min, and an enable_auto_adjust with high <= 0, low < 0 or
\* interval <= 0 return an error and change nothing
C19_ValidationChangesNothing ==
    [][/\ (ret.op = "create" /\ ret.val = -1) =>
            (PoolIsNull /\ \A w \in WorkerIds : workers[w] = Unborn)
       /\ ret'.op = "add_task" =>
            (AddTaskCall("NULL", TASK_PRIORITY_NORMAL, {1})
                => ArgsRejected("add_task"))
       /\ ret'.op = "set_limits" =>
            \A mn, mx \in 0..MaxLimit :
                ((mn < 1 \/ mx < mn) /\ SetLimitsCall(mn, mx))
                    => ArgsRejected("set_limits")
       /\ ret'.op = "enable_auto_adjust" =>
            \A high, low \in Watermarks, interval \in Intervals :
                ((high <= 0 \/ low < 0 \/ interval <= 0)
                 /\ thread_pool_enable_auto_adjust(high, low, interval))
                    => ArgsRejected("enable_auto_adjust")]_vars

\* thread_pool_enable_auto_adjust has returned -1 on a live pool with valid
\* limits, which can only be for its arguments, with a task in the queue
C19_Witness ==
    /\ ret = Ret("enable_auto_adjust", -1)
    /\ ~PoolIsNull
    /\ ~shutdown
    /\ 0 < min_threads /\ min_threads <= max_threads
    /\ queue # <<>>

\* ---- properties of the locks ---------------------------------------------------
\* the lines at which a thread is about to lock a mutex, and those at which it
\* is inside pthread_create or pthread_join
WantsLock == {"w_210", "w_230", "w_320", "w_365", "a_770", "r_1224", "l_1492",
              "c_460", "e_869", "d_1587", "d_1660", "x_1008", "x_1035",
              "x_1049", "x_1103"}
WantsResize == {"r_1212", "x_995", "x_1040", "x_1064"}
WantsAdjust == {"a_93", "a_804", "w_357", "c_416", "c_443", "c_511", "c_521",
                "e_899", "d_1611", "d_1619"}
AtSpawn == {"r_1316", "e_933"}
AtJoinCtl == {"d_1633", "x_1069"}
AtJoinWorker == {"x_1121"}

Holds(t) == {m \in {"lock", "resize_lock", "adjust_cond_lock"} :
                \/ m = "lock" /\ lock = t
                \/ m = "resize_lock" /\ resize_lock = t
                \/ m = "adjust_cond_lock" /\ adjust_cond_lock = t}

\* the thread that thread t cannot go on without: the holder of the mutex it
\* is about to lock, or the running thread it joins; "none" if t can go on
WaitsOn(t) ==
    IF pc[t] \in WantsLock /\ lock # "free" THEN lock
    ELSE IF pc[t] \in WantsResize /\ resize_lock # "free" THEN resize_lock
    ELSE IF pc[t] \in WantsAdjust /\ adjust_cond_lock # "free"
            /\ adjust_cond_lock_init THEN adjust_cond_lock
    ELSE IF pc[t] \in AtJoinCtl /\ CtlAlive THEN "ctl"
    ELSE IF pc[t] \in AtJoinWorker /\ pc["w1"] # "exited" THEN "w1"
    ELSE "none"

NoWaitCycle ==
    \A S \in SUBSET LockThreads :
        S # {} => \E t \in S : WaitsOn(t) \notin S

\* C13: while the task function runs the worker holds neither pool->lock nor
\* any other lock of the pool
C13_NoLockDuringTask ==
    \A t \in LockThreads : pc[t] = "w_310" => Holds(t) = {}

\* the task function runs while a client holds pool->lock
C13_Witness ==
    /\ pc["w1"] = "w_310"
    /\ lock \in LockClients

\* C14: a thread that locks resize_lock does not hold pool->lock, and no set
\* of threads wait for one another in a cycle
C14_LockOrder ==
    /\ \A t \in LockThreads : pc[t] \in WantsResize => lock # t
    /\ NoWaitCycle

\* thread_pool_set_limits, having released pool->lock, holds resize_lock and
\* waits for pool->lock, which another thread holds while it waits for
\* adjust_cond_lock
C14_Witness ==
    \E t \in LockClients :
        /\ fn[t] = "set_limits"
        /\ resize_lock = t
        /\ pc[t] = "r_1224"
        /\ lock \notin {"free", t}
        /\ WaitsOn(lock) # "none"

\* C15: no thread locks adjust_cond_lock while it holds pool->lock
C15_AdjustLockOutsidePoolLock ==
    [][\A t \in LockThreads :
          (adjust_cond_lock' = t /\ adjust_cond_lock # t) => lock # t]_vars

\* C16: no thread is inside pthread_create or pthread_join while it holds
\* pool->lock
C16_NoSpawnOrJoinUnderLock ==
    \A t \in LockThreads :
        pc[t] \in (AtSpawn \cup AtJoinCtl \cup AtJoinWorker) => lock # t

\* ---- properties of the auto-adjust thread -----------------------------------
\* the auto-adjust thread completes a check in this step
AdjustChecks == ret'.op = "auto_adjust"
\* the auto-adjust thread calls thread_pool_resize in this step
AdjustRequests == resize_lock # "ctl" /\ resize_lock' = "ctl"
\* the resize called by the auto-adjust thread does its work in this step
AdjustResizes == resize_lock = "ctl" /\ resize_pc = "body" /\ resize_lock' = "free"

Abs(x) == IF x < 0 THEN -x ELSE x

Load ==
    /\ auto_adjust /\ adjust_thread_running
    /\ task_queue_size > high_watermark
    /\ thread_count < max_threads
\* the model can follow one more worker thread
CanSpawn == started < MaxSpawn

\* C22: with auto-adjust on, while the queue size stays above the high
\* watermark and thread_count below max_threads, thread_count comes to exceed
\* the value it has; thread_count never exceeds max_threads
C22_GrowsUnderLoad ==
    /\ \A k \in 1..MaxIndex :
          (Load /\ CanSpawn /\ thread_count = k)
              ~> (thread_count > k \/ ~Load \/ ~CanSpawn)
    /\ [](thread_count <= max_threads)

\* the auto-adjust thread has grown the pool from one thread to two, with two
\* tasks still queued
C22_Witness ==
    /\ ret = RetArgs("resize", 0, 2, 1)
    /\ auto_adjust
    /\ thread_count = 2
    /\ started = 2
    /\ task_queue_size = 2

\* ---- properties of enable and disable -----------------------------------------
\* thread_pool_disable_auto_adjust returns in this step, to the client or to
\* thread_pool_destroy
DisableReturned(t) ==
    /\ pc[t] \in {"d_1588", "d_1666"}
    /\ pc'[t] \in {"idle", "x_995"}
\* a client is inside thread_pool_destroy
InDestroy == \E u \in LockClients : fn[u] = "destroy"
\* pthread_create of the auto-adjust thread succeeds in this step
SpawnsCtl ==
    \E t \in LockClients :
        pc[t] = "e_933" /\ pc'[t] = "e_948" /\ adjust_thread'

\* C23: when thread_pool_disable_auto_adjust returns, auto_adjust is false and
\* the auto-adjust thread has ended; from then on there is no such thread, and
\* so no resize other than those of thread_pool_resize and
\* thread_pool_set_limits calls, until thread_pool_enable_auto_adjust starts
\* one
C23_DisableStopsAdjusting ==
    [][/\ \A t \in LockClients :
             DisableReturned(t) => ~auto_adjust' /\ ~CtlAlive'
       /\ (~CtlAlive /\ CtlAlive') => SpawnsCtl
       /\ (~auto_adjust /\ ~InDestroy) => ~CtlAlive]_vars

\* enable has started the auto-adjust thread, disable has joined it and has
\* returned
C23_Witness ==
    /\ pc["ctl"] = "exited"
    /\ ~auto_adjust /\ ~adjust_thread /\ ~shutdown
    /\ \A u \in LockClients : pc[u] = "idle"

\* C24: the pool has at most one auto-adjust thread: none is started while
\* one is alive, and thread_pool_enable_auto_adjust on a pool whose
\* auto_adjust is set starts none
C24_OneAdjustThread ==
    [][/\ SpawnsCtl => ~CtlAlive
       /\ \A t \in LockClients :
             (pc[t] = "e_870" /\ auto_adjust) => pc'[t] \in {"e_870", "e_899", "idle"}]_vars

\* ---- properties of shutdown -----------------------------------------------------
\* C25: once shutdown is set no thread is created: no thread stands at a
\* pthread_create of a worker or of the auto-adjust thread while shutdown is
\* set, and thread_pool_resize and thread_pool_enable_auto_adjust that find
\* shutdown set go to their return without passing a pthread_create
C25_NoSpawnAfterShutdown ==
    [][\A t \in LockThreads :
          /\ pc[t] \in AtSpawn => ~shutdown
          /\ pc'[t] \in AtSpawn => ~shutdown'
          /\ (shutdown /\ pc[t] = "r_1226") => pc'[t] \in {"r_1226", "r_1358"}
          /\ (shutdown /\ pc[t] = "e_870") => pc'[t] \in {"e_870", "idle"}]_vars

\* thread_pool_destroy has set shutdown; a resize that was waiting for
\* pool->lock has it now and finds the pool shut down
C25_Witness ==
    /\ shutdown
    /\ \E t \in LockThreads : pc[t] = "r_1226" /\ lock = t

\* ---- properties of the worker slots ---------------------------------------------
\* C26: for every worker index i below thread_count, thread_status[i] is idle
\* if and only if running_task_names[i] is "[idle]", from creation onwards
C26_IdleIffIdleName ==
    destroy_pc # "done" =>
        \A i \in 0..(thread_count - 1) :
            i \in DOMAIN thread_status =>
                (thread_status[i] = ST_IDLE <=> running_task_names[i] = IDLE_NAME)

\* the tasks that the live workers with index i are executing
ExecutingAt(i) ==
    {workers[w].task.id : w \in {v \in WorkerIds :
                                    workers[v].pc = "busy" /\ workers[v].thread_id = i}}

\* C27: thread_pool_get_running_task_names returns thread_count entries;
\* entry i is the name of the task the worker with index i is executing, or
\* "[idle]" when that worker executes nothing
C27_NamesAreRunningTasks ==
    (destroy_pc # "done" /\ ~shutdown) =>
        LET r == thread_pool_get_running_task_names
        IN  /\ r.ok
            /\ DOMAIN r.names = 0..(thread_count - 1)
            /\ \A i \in 0..(thread_count - 1) :
                  IF ExecutingAt(i) = {} THEN r.names[i] = IDLE_NAME
                  ELSE r.names[i] \in ExecutingAt(i)

\* no task is queued and no worker is executing one: all the workers of the
\* pool are waiting for work
Quiescent ==
    /\ ~shutdown /\ destroy_pc = "no"
    /\ task_queue_size = 0
    /\ \A w \in WorkerIds : workers[w].pc # "busy"

\* C28: whenever the queue is empty and no task is executing, get_stats
\* reports idle_threads = thread_count, from the return of create onwards
C28_QuiescentAllIdle ==
    Quiescent => /\ thread_pool_get_stats.ok
                 /\ thread_pool_get_stats.idle_threads =
                        thread_pool_get_stats.thread_count

\* this step is a call of thread_pool_add_task that put its task in the queue
SubmitAccepted ==
    ret'.op = "add_task" /\ task_queue_size' = task_queue_size + 1

\* C29: the value a successful submit returns is a task id of at least 1,
\* never 0, and it is greater than the one the successful submit just before
\* it returned
C29_TaskIdsIncrease ==
    [][SubmitAccepted =>
          /\ ret'.val >= 1
          /\ (ret.op = "add_task" /\ ret.val >= 0) => ret'.val > ret.val]_vars

\* ---- properties of cancellation ---------------------------------------------
\* this step is a return of thread_pool_cancel_task
CancelReturns == ret'.op = "cancel_task"

\* a worker starts to run a task in this step
Starts(w) == workers[w].pc # "busy" /\ workers'[w].pc = "busy"

\* C30: only queued tasks can be cancelled.  Cancelling a queued task removes
\* it from the queue and calls the callback once with its id, and no worker
\* has it or gets it: a worker starts the task at the head of the queue only.
\* Cancelling a task a worker has dequeued returns the Running outcome, calls
\* no callback and leaves the worker running it.
C30_OnlyQueuedCancelled ==
    [][/\ CancelReturns =>
            LET id == ret'.arg
            IN  /\ ret'.val = CANCELLED => id \in QueuedIds
                /\ id \in QueuedIds =>
                      /\ ret'.val = CANCELLED /\ ret'.arg2 = 1
                      /\ queue' = Unlink(queue, id)
                      /\ \A k \in 1..Len(queue') : queue'[k].id # id
                      /\ workers' = workers
                      /\ \A w \in WorkerIds : workers[w].task.id # id
                /\ (id \in RunningIds /\ id \notin QueuedIds) =>
                      /\ ret'.val = CANCEL_RUNNING /\ ret'.arg2 = 0
                      /\ queue' = queue
                      /\ workers' = workers
       /\ \A w \in WorkerIds :
             Starts(w) => queue # <<>> /\ workers'[w].task = Head(queue)]_vars

\* a queued task has just been cancelled while a worker runs another one
C30_Witness ==
    /\ ret.op = "cancel_task" /\ ret.val = CANCELLED /\ ret.arg2 = 1
    /\ RunningIds # {} /\ ret.arg \notin RunningIds
    /\ ret.arg \notin QueuedIds

\* ---- properties of the task names --------------------------------------------
\* the tasks that are queued or that a worker is running
PendingTasks ==
    {queue[k] : k \in 1..Len(queue)} \cup
    {workers[w].task : w \in {v \in WorkerIds : workers[v].pc = "busy"}}

\* a name the pool made up for a task submitted without one
Synthesized(name) == Len(name) >= 1 /\ name[1] = UNNAMED_TASK[1]

\* C31: a task submitted with no name gets a name built from its own id, so
\* no two unnamed tasks that are queued or running carry the same name
C31_UnnamedNamesDistinct ==
    \A a \in PendingTasks, b \in PendingTasks :
        (a.id # b.id /\ Synthesized(a.name) /\ Synthesized(b.name))
            => a.name # b.name

\* ---- well-formedness of the queue ----------------------------------------------
\* C32: after any enqueues, dequeues and the drain of destroy, tail is NULL
\* iff head is NULL, tail is the last node reachable from head,
\* task_queue_size is the number of nodes and the priorities do not decrease
\* from head to tail
C32_QueueWellFormed ==
    /\ (tail = 0) <=> (queue = <<>>)
    /\ queue # <<>> => tail = queue[Len(queue)].id
    /\ task_queue_size = Len(queue)
    /\ \A k \in 1..(Len(queue) - 1) : queue[k].priority <= queue[k + 1].priority

\* three nodes of two priorities are queued, the last one linked behind the
\* old tail, while a worker runs a task it dequeued
C32_Witness ==
    /\ Len(queue) >= 3
    /\ queue[1].priority < queue[Len(queue)].priority
    /\ tail = queue[Len(queue)].id
    /\ RunningIds # {}

\* ---- properties of idle_threads ------------------------------------------------
\* the live workers whose slot has the status IDLE
IdleWorkers ==
    {w \in WorkerIds : /\ Alive(w)
                       /\ workers[w].thread_id \in DOMAIN thread_status
                       /\ thread_status[workers[w].thread_id] = ST_IDLE}

\* C33: in every state with pool->lock free, idle_threads is the number of
\* live workers whose status is IDLE
C33_IdleThreadsExact ==
    destroy_pc # "done" => idle_threads = Cardinality(IdleWorkers)

\* ---- properties of a failed grow -------------------------------------------------
\* this step is a thread_pool_resize that was to grow the pool and returns -1
GrowFails ==
    /\ resize_pc = "body" /\ ~shutdown /\ resize_target > thread_count
    /\ ret'.op \in {"resize", "set_limits"} /\ ret'.val = -1

\* C34: when a spawn fails in the middle of a grow, resize returns an error and
\* every index that thread_count counts afterwards has a worker that was
\* created, is alive and has not been told to exit
C34_FailedGrowCountsLiveWorkers ==
    [][GrowFails =>
          \A i \in 0..(thread_count' - 1) :
              /\ threads'[i] # 0
              /\ workers'[threads'[i]].pc \in {"loop", "busy"}
              /\ thread_status'[i] # ST_RESIZE]_vars

\* ---- properties of resize against set_limits -------------------------------------
\* this step is the part of a thread_pool_resize under pool->lock that writes
\* thread_count and returns 0
ResizeWrites ==
    /\ resize_pc = "body" /\ resize_pc' = "-"
    /\ thread_count' # thread_count
    /\ ret'.val = 0

\* C35: a resize that succeeds never leaves thread_count outside the limits
\* that are in force when it writes thread_count, whatever set_limits does
\* at the same time
C35_ResizeWithinLimitsInForce ==
    [][ResizeWrites =>
          (min_threads <= thread_count' /\ thread_count' <= max_threads)]_vars

\* ---- properties of concurrent resizes --------------------------------------------
\* a call of thread_pool_resize is under way: it holds pool->resize_lock
ResizeUnderWay == resize_lock # "free"

\* C36: resize calls of the API, of set_limits and of the auto-adjust thread
\* are totally ordered.  While one call is under way no other call starts
\* and its target stays; thread_count is written by the call under way
\* only; a call that returns 0 leaves thread_count at its own target and a
\* call that is rejected by the range test leaves it unchanged.
C36_ResizesTotallyOrdered ==
    [][/\ (ResizeUnderWay /\ ResizeUnderWay') =>
              (resize_lock' = resize_lock /\ resize_target' = resize_target)
       /\ thread_count' # thread_count =>
              (ResizeUnderWay /\ resize_pc = "body")
       /\ (ResizeUnderWay /\ ~ResizeUnderWay') =>
              /\ ret'.op \in {"resize", "set_limits"}
              /\ IF ret'.val = 0 THEN thread_count' = resize_target
                 ELSE resize_pc \in {"min", "max"} =>
                          thread_count' = thread_count]_vars

\* a resize of the API is about to write thread_count while the auto-adjust
\* thread and set_limits each have a resize of another target to make
C36_Witness ==
    /\ resize_lock = "api" /\ resize_pc = "body"
    /\ adjust_target # 0 /\ adjust_target # resize_target
    /\ limits_target # 0

\* ---- convergence of the workers ---------------------------------------------------
\* the live worker threads that serve index i
WorkersAt(i) == {w \in WorkerIds : Alive(w) /\ workers[w].thread_id = i}

\* no resize is under way, no task is queued or running and no worker is
\* about to leave: nothing changes any more unless the API is called
Settled ==
    /\ destroy_pc = "no" /\ ~shutdown
    /\ resize_lock = "free"
    /\ queue = <<>>
    /\ \A w \in WorkerIds :
          /\ workers[w].pc # "busy"
          /\ workers[w].pc = "loop" => ~ShouldExit(workers[w].thread_id)

\* C37: once the resizes have stopped and the tasks in flight have finished,
\* exactly one live worker serves each index below thread_count and no other
\* worker is alive, whatever shrinks and grows came before
C37_WorkersConverge ==
    Settled =>
        /\ \A i \in 0..(thread_count - 1) : Cardinality(WorkersAt(i)) = 1
        /\ \A w \in WorkerIds : Alive(w) => workers[w].thread_id < thread_count

\* ---- properties of started --------------------------------------------------------
\* the worker threads that were ever spawned
Spawned == {w \in WorkerIds : workers[w].pc # "unborn"}

\* C38: started is the number of worker threads ever spawned for the pool: it
\* is num_threads after create, grows by one for each worker a grow spawns
\* and never decreases, neither by a shrink, nor by the exit of a worker, nor
\* by a failed grow
C38_StartedCountsSpawns ==
    /\ started = thread_count
    /\ [](destroy_pc # "done" => started = Cardinality(Spawned))
    /\ [][/\ started' >= started
          /\ started' - started = Cardinality(Spawned' \ Spawned)]_vars

\* a grow has failed at its second spawn and a worker has left since: started
\* counts the worker that was spawned and the one that left
C38_Witness ==
    /\ started = 2 /\ thread_count = 2
    /\ \E i \in 0..(thread_count - 1) : thread_status[i] = ST_EXITED
    /\ \E w \in WorkerIds : workers[w].pc = "exited"

\* ---- properties of the workers at shutdown ------------------------------------------
\* worker w has an index below thread_count and its slot is not marked for exit
InService(w) ==
    /\ Alive(w)
    /\ workers[w].thread_id < thread_count
    /\ thread_status[workers[w].thread_id] >= 0

\* worker w leaves its loop in this step
Leaves(w) == Alive(w) /\ workers'[w].pc = "exited"

\* C39: a worker whose index is within thread_count and that is not marked
\* for exit leaves its loop only when shutdown is set and the queue is empty;
\* while shutdown is set and tasks are queued, such a worker that is back
\* at the head of its loop dequeues one
C39_DrainsBeforeExit ==
    [][\A w \in WorkerIds :
          /\ (destroy_pc # "done" /\ InService(w) /\ workers[w].pc = "loop"
                 /\ shutdown /\ queue # <<>>) => ENABLED WorkerDispatch(w)
          /\ (InService(w) /\ Leaves(w)) =>
                 (shutdown /\ task_queue_size = 0 /\ queue = <<>>)]_vars

\* ---- C40 ---------------------------------------------------------------------
\* the lines at which a thread that found auto_adjust set locks
\* adjust_cond_lock, signals adjust_cond and unlocks (thread.c:93-95, 804-806,
\* 357-359)
SignalLines == {"a_93", "a_95", "a_804", "a_806", "w_357", "w_359"}

\* thread t executes one of these lines
Signals(t) == pc[t] \in SignalLines /\ pc'[t] # pc[t]

\* thread_pool_disable_auto_adjust has destroyed adjust_cond and
\* adjust_cond_lock (thread.c:1650-1657) and has not yet cleared auto_adjust
\* (thread.c:1666)
DestroyedByDisable == \E u \in LockClients : pc[u] \in {"d_1660", "d_1666"}

\* C40: a thread that signals the auto-adjust thread because auto_adjust is set
\* locks adjust_cond_lock and signals adjust_cond only while the two exist:
\* never after thread_pool_disable_auto_adjust has destroyed them
C40_SignalWhilePrimitivesExist ==
    [][\A t \in LockThreads : Signals(t) => ~DestroyedByDisable]_vars

====
